---- MODULE Spec2Model ----
(***************************************************************************)
(* gmux (src/src/main.c): the session/state model.  Projects and their     *)
(* subtabs, lazy initialisation, save_session / load_session, the sidebar  *)
(* selection and the drag-to-reorder gesture of a project's tab strip.     *)
(*                                                                         *)
(* The handlers of main.c call one another (create_project calls           *)
(* create_subtab, gtk_list_box_select_row emits "row-selected" and so runs *)
(* on_project_selected, close_subtab calls save_session, ...).  Each       *)
(* function is therefore an operator from a world W to a world, where      *)
(*   W.app      the AppState and everything reachable from it,             *)
(*   W.now      the next value g_get_real_time() returns,                  *)
(*   W.session  the contents of session.json,                              *)
(*   W.saves    the number of save_session calls made by the handler,      *)
(*   W.pending  the events queued in the main loop but not yet dispatched, *)
(* and each action runs one whole handler on the current world.            *)
(***************************************************************************)
EXTENDS Integers, Sequences, FiniteSets, TLC

VARIABLES
    phase,      \* "off": no process; "running": activate() has returned
    app,        \* AppState: projects, active_project, sort_mode and the widgets' state
    now,        \* the next value of g_get_real_time()
    session,    \* session.json
    legacy,     \* projects.conf and sort.conf (the legacy format)
    pending,    \* close requests queued in the main loop, not yet dispatched
    gest,       \* the pointer sequence of the GtkGestureDrag, and what it did so far
    h           \* the last handler that ran: its name, its save_session calls and, for
                \* a button release, what the pointer sequence had done

vars == <<phase, app, now, session, legacy, pending, gest, h>>

\* ------------------------------------------------------------------ bounds

\* The projects of the application, and the clock: StartTime is its first reading.
MaxProjects == 2
MaxClock == 5
\* The subtabs of a project (live ones, and the value of its tab counter).
MaxTabs == 2
\* SpecProjects: the clock.
MaxClockProjects == 7
\* SpecDrag: the subtabs of a project.
MaxDragTabs == 3

\* ------------------------------------------------------------- C library

NULL == 0

\* g_list_index: the 0-based position of x, -1 when absent.
g_list_index(list, x) ==
    IF \E i \in 1..Len(list) : list[i] = x
    THEN (CHOOSE i \in 1..Len(list) :
              list[i] = x /\ \A j \in 1..(i - 1) : list[j] # x) - 1
    ELSE -1

\* Mutant of g_list_nth: the index is ignored and the first element returned.
g_list_nth_first(list, n) == IF list # <<>> THEN list[1] ELSE NULL

\* g_list_nth: the element at 0-based position n, NULL when out of range (a negative
\* int converts to a huge guint).
g_list_nth(list, n) == IF n >= 0 /\ n < Len(list) THEN list[n + 1] ELSE NULL

g_list_remove(list, x) == SelectSeq(list, LAMBDA y : y # x)

\* g_new0: a fresh address, here the least identifier not in use.
g_new0(used) == CHOOSE i \in 1..(Cardinality(used) + 1) : i \notin used

\* ------------------------------------------------------------ the values

\* enum SortMode
SORT_NONE == 0
SORT_ALPHA == 1
SORT_MRU == 2

\* The switch of save_session on app->sort_mode: the string written for a mode.
SortModeString(m) ==
    CASE m = SORT_ALPHA -> "alpha"
      [] m = SORT_MRU -> "mru"
      [] OTHER -> "none"

\* The strcmp chain of load_session on the "sort_mode" member (and on the line of the
\* legacy sort.conf, which leaves the mode alone when it is neither).
ParseSortMode(str, other) ==
    IF str = "alpha" THEN SORT_ALPHA
    ELSE IF str = "mru" THEN SORT_MRU
    ELSE other

NoDir == "(no uri)"

\* The folders the folder picker can return: basename and path.
Folders == { [name |-> "api", path |-> "/w/api"], [name |-> "Web", path |-> "/w/Web"] }

\* What a shell can report as its current directory besides the one it was spawned in.
OtherDir == "/tmp"

\* The window titles a terminal can report ("" is the empty title).
Titles == { "", "vim" }

\* snprintf(name, sizeof(name), "Tab %d", n)
TabName(n) == "Tab " \o ToString(n)

\* ------------------------------------------------------------ AppState

\* gtk_list_box_new(): the list box has no sort function until apply_sort sets one.
NoSortFunc == "NULL"

\* g_new0(AppState, 1) in activate(): no projects, SORT_NONE, nothing selected.
NewApp == [ projects |-> <<>>,
            sidebar |-> <<>>,
            sort_func |-> NoSortFunc,
            proj |-> <<>>,
            active_project |-> NULL,
            sort_mode |-> SORT_NONE,
            notebook_page |-> NULL,
            selected_row |-> NULL ]

\* pick is the place g_sequence_insert_sorted takes when its binary search, over rows
\* that are not in the comparator's order, can end at more than one; write_fails is
\* whether writing session.json fails while the handler runs.
World(a, t, s, q) ==
    [app |-> a, now |-> t, session |-> s, pending |-> q, saves |-> 0, pick |-> 0,
     write_fails |-> FALSE]

\* ---------------------------------------------------------- save_session

\* The working directory written for a live subtab: the terminal's current directory
\* when it has reported one, else the project's path.
SavedWorkingDir(P, st) == IF st.cwd # NoDir THEN st.cwd ELSE P.path

SubtabJson(P, s) ==
    [name |-> P.sub[s].name, working_dir |-> SavedWorkingDir(P, P.sub[s])]

\* Mutant of ActiveSubtabIndex: the active subtab is not looked up.
ActiveSubtabIndexZero(P) == 0

ActiveSubtabIndex(P) ==
    IF P.active_subtab # NULL /\ g_list_index(P.subtabs, P.active_subtab) >= 0
    THEN g_list_index(P.subtabs, P.active_subtab)
    ELSE 0

ProjectJson(P) ==
    [ name |-> P.name, path |-> P.path, last_used |-> P.last_used,
      active_subtab_index |->
          IF P.initialized THEN ActiveSubtabIndex(P)
          ELSE IF P.saved_subtabs # <<>> THEN P.saved_active_subtab
          ELSE 0,
      subtabs |->
          IF P.initialized
          THEN [i \in 1..Len(P.subtabs) |-> SubtabJson(P, P.subtabs[i])]
          ELSE P.saved_subtabs ]

\* Mutant of ActiveProjectIndex: the active project is not looked up.
ActiveProjectIndexZero(a) == 0

ActiveProjectIndex(a) ==
    IF a.active_project # NULL /\ g_list_index(a.projects, a.active_project) >= 0
    THEN g_list_index(a.projects, a.active_project)
    ELSE 0

\* Mutant of SessionJson: the projects are written as the sidebar shows them.
SessionJsonDisplayed(a) ==
    [ kind |-> "json",
      active_project_index |->
          IF a.active_project # NULL /\ g_list_index(a.sidebar, a.active_project) >= 0
          THEN g_list_index(a.sidebar, a.active_project)
          ELSE 0,
      sort_mode |-> SortModeString(a.sort_mode),
      projects |-> [i \in 1..Len(a.sidebar) |-> ProjectJson(a.proj[a.sidebar[i]])] ]

\* The JSON document save_session builds from the AppState.
SessionJson(a) ==
    [ kind |-> "json",
      active_project_index |-> ActiveProjectIndex(a),
      sort_mode |-> SortModeString(a.sort_mode),
      projects |-> [i \in 1..Len(a.projects) |-> ProjectJson(a.proj[a.projects[i]])] ]

\* Mutant of json_generator_to_file: nothing is written.
json_generator_to_file_nowhere(W, doc) == W

\* json_generator_to_file, which replaces the file through g_file_set_contents: the file
\* holds the document when the write succeeds and is left as it was when it fails.
json_generator_to_file(W, doc) ==
    IF W.write_fails THEN W ELSE [W EXCEPT !.session = doc]

save_session(W) ==
    [json_generator_to_file(W, SessionJson(W.app)) EXCEPT !.saves = @ + 1]

\* ------------------------------------------------------------- the sidebar

\* The bytes of the project names that occur.
Spelling ==
    ("api" :> << 97, 112, 105 >>) @@
    ("Web" :> << 87, 101, 98 >>) @@
    ("doc" :> << 100, 111, 99 >>) @@
    ("apple" :> << 97, 112, 112, 108, 101 >>) @@
    ("banana" :> << 98, 97, 110, 97, 110, 97 >>) @@
    ("cherry" :> << 99, 104, 101, 114, 114, 121 >>) @@
    ("Cherry" :> << 67, 104, 101, 114, 114, 121 >>)

\* Mutant of g_ascii_tolower: the case is kept.
g_ascii_keepcase(c) == c

g_ascii_tolower(c) == IF c >= 65 /\ c <= 90 THEN c + 32 ELSE c

RECURSIVE g_ascii_strcasecmp_bytes(_, _)
\* g_ascii_strcasecmp: the difference of the first bytes that differ once folded to
\* lower case, the end of a string being the byte 0.
g_ascii_strcasecmp_bytes(s1, s2) ==
    IF s1 = <<>> \/ s2 = <<>>
    THEN (IF s1 = <<>> THEN 0 ELSE Head(s1)) - (IF s2 = <<>> THEN 0 ELSE Head(s2))
    ELSE LET c1 == g_ascii_tolower(Head(s1))
             c2 == g_ascii_tolower(Head(s2))
         IN IF c1 # c2 THEN c1 - c2 ELSE g_ascii_strcasecmp_bytes(Tail(s1), Tail(s2))

g_ascii_strcasecmp(s1, s2) == g_ascii_strcasecmp_bytes(Spelling[s1], Spelling[s2])

sort_func_insertion(p1, p2) == p1.insert_order - p2.insert_order

sort_func_alpha(p1, p2) == g_ascii_strcasecmp(p1.name, p2.name)

sort_func_mru(p1, p2) ==
    IF p2.last_used > p1.last_used THEN 1
    ELSE IF p2.last_used < p1.last_used THEN -1
    ELSE 0

\* do_sort of GtkListBox: the sort function set, on the projects of two rows.
do_sort(sort_func, p1, p2) ==
    CASE sort_func = "sort_func_alpha" -> sort_func_alpha(p1, p2)
      [] sort_func = "sort_func_mru" -> sort_func_mru(p1, p2)
      [] OTHER -> sort_func_insertion(p1, p2)

\* seq with x put in so that k elements precede it.
InsertAt(seq, x, k) == SubSeq(seq, 1, k) \o <<x>> \o SubSeq(seq, k + 1, Len(seq))

\* The places where the binary search of g_sequence_insert_sorted can end: the row
\* before is not greater than the new one and the row after is greater.  When the rows
\* are in the comparator's order that is one place, after the rows not greater.
InsertPlaces(proj, sort_func, rows, x) ==
    { k \in 0..Len(rows) :
        /\ k = 0 \/ do_sort(sort_func, proj[rows[k]], proj[x]) <= 0
        /\ k = Len(rows) \/ do_sort(sort_func, proj[rows[k + 1]], proj[x]) > 0 }

\* gtk_list_box_append: at the end without a sort function, else by
\* g_sequence_insert_sorted.
gtk_list_box_append(a, x, pick) ==
    IF a.sort_func = NoSortFunc THEN Append(a.sidebar, x)
    ELSE LET places == InsertPlaces(a.proj, a.sort_func, a.sidebar, x)
             k == IF pick \in places THEN pick
                  ELSE CHOOSE j \in places : \A i \in places : i <= j
         IN InsertAt(a.sidebar, x, k)

RECURSIVE g_sequence_sort(_, _, _, _)
\* g_sequence_sort: the rows are taken in their order and each one put, into the rows
\* sorted so far, after those that are not greater.
g_sequence_sort(proj, sort_func, sorted, rows) ==
    IF rows = <<>> THEN sorted
    ELSE LET x == Head(rows)
             places == InsertPlaces(proj, sort_func, sorted, x)
             k == CHOOSE j \in places : \A i \in places : i <= j
         IN g_sequence_sort(proj, sort_func, InsertAt(sorted, x, k), Tail(rows))

\* apply_sort: gtk_list_box_set_sort_func for the mode, then gtk_list_box_invalidate_sort.
apply_sort(W) ==
    LET sort_func == CASE W.app.sort_mode = SORT_ALPHA -> "sort_func_alpha"
                       [] W.app.sort_mode = SORT_MRU -> "sort_func_mru"
                       [] OTHER -> "sort_func_insertion"
    IN [W EXCEPT !.app.sort_func = sort_func,
                 !.app.sidebar = g_sequence_sort(W.app.proj, sort_func, <<>>, @)]

\* ------------------------------------------------------- subtabs, projects

\* Mutant of on_subtab_button_clicked: showing a subtab counts as using its project.
on_subtab_button_clicked_used(W, p, s) ==
    [W EXCEPT !.app.proj[p].active_subtab = s, !.app.proj[p].last_used = W.now + 1]

on_subtab_button_clicked(W, p, s) ==
    [W EXCEPT !.app.proj[p].active_subtab = s]

NewSubTab(name, working_dir) ==
    [name |-> name, wd |-> working_dir, cwd |-> NoDir, closing |-> FALSE, dragging |-> FALSE]

\* Mutant of create_subtab: the tab of the new subtab is put first in the strip.
create_subtab_prepended(W, p, name, working_dir) ==
    LET P == W.app.proj[p]
        s == g_new0(DOMAIN P.sub)
        W1 == [W EXCEPT !.app.proj[p].sub = (s :> NewSubTab(name, working_dir)) @@ P.sub,
                        !.app.proj[p].tabs_box = <<s>> \o P.tabs_box,
                        !.app.proj[p].subtabs = Append(P.subtabs, s)]
    IN on_subtab_button_clicked(W1, p, s)

\* Mutant of create_subtab: the new subtab is not switched to.
create_subtab_hidden(W, p, name, working_dir) ==
    LET P == W.app.proj[p]
        s == g_new0(DOMAIN P.sub)
    IN [W EXCEPT !.app.proj[p].sub = (s :> NewSubTab(name, working_dir)) @@ P.sub,
                 !.app.proj[p].tabs_box = Append(P.tabs_box, s),
                 !.app.proj[p].subtabs = Append(P.subtabs, s)]

create_subtab(W, p, name, working_dir) ==
    LET P == W.app.proj[p]
        s == g_new0(DOMAIN P.sub)
        W1 == [W EXCEPT !.app.proj[p].sub = (s :> NewSubTab(name, working_dir)) @@ P.sub,
                        !.app.proj[p].tabs_box = Append(P.tabs_box, s),
                        !.app.proj[p].subtabs = Append(P.subtabs, s)]
    IN on_subtab_button_clicked(W1, p, s)

\* Mutant of free_saved_subtabs: the descriptors are kept.
keep_saved_subtabs(W, p) == W

free_saved_subtabs(W, p) == [W EXCEPT !.app.proj[p].saved_subtabs = <<>>]

RECURSIVE RestoreSubtabs(_, _, _)
\* The loop of on_project_selected over the saved descriptors.
RestoreSubtabs(W, p, saved) ==
    IF saved = <<>> THEN W
    ELSE RestoreSubtabs(create_subtab(W, p, Head(saved).name, Head(saved).working_dir),
                        p, Tail(saved))

\* The lazy initialisation of on_project_selected.
Materialize(W, p) ==
    LET P == W.app.proj[p] IN
    IF P.saved_subtabs # <<>>
    THEN LET W1 == RestoreSubtabs(W, p, P.saved_subtabs)
             W2 == [W1 EXCEPT !.app.proj[p].subtab_counter = Len(P.saved_subtabs)]
             active_sub == g_list_nth(W2.app.proj[p].subtabs, P.saved_active_subtab)
             W3 == IF active_sub # NULL
                   THEN on_subtab_button_clicked(W2, p, active_sub)
                   ELSE W2
         IN free_saved_subtabs(W3, p)
    ELSE [create_subtab(W, p, TabName(1), P.path) EXCEPT !.app.proj[p].subtab_counter = 1]

\* Mutant of on_project_selected: the sidebar is sorted again after the selection.
on_project_selected_sorting(W, row) ==
    IF row = NULL \/ g_list_index(W.app.projects, row) < 0 THEN W
    ELSE LET W1 == [W EXCEPT !.app.notebook_page = row,
                             !.app.active_project = row,
                             !.app.proj[row].last_used = W.now,
                             !.now = @ + 1]
             W2 == IF ~W1.app.proj[row].initialized
                   THEN [Materialize(W1, row) EXCEPT !.app.proj[row].initialized = TRUE]
                   ELSE W1
         IN apply_sort(W2)

\* The "row-selected" handler; row is the project of the selected row, NULL for none.
on_project_selected(W, row) ==
    IF row = NULL \/ g_list_index(W.app.projects, row) < 0 THEN W
    ELSE LET W1 == [W EXCEPT !.app.notebook_page = row,
                             !.app.active_project = row,
                             !.app.proj[row].last_used = W.now,
                             !.now = @ + 1]
             W2 == IF ~W1.app.proj[row].initialized
                   THEN [Materialize(W1, row) EXCEPT !.app.proj[row].initialized = TRUE]
                   ELSE W1
         IN W2

\* gtk_list_box_select_row: a row that is not yet the selected one becomes it and
\* "row-selected" is emitted, which activate() has connected to on_project_selected
\* before it calls load_session.
gtk_list_box_select_row(W, row) ==
    IF W.app.selected_row = row THEN W
    ELSE on_project_selected([W EXCEPT !.app.selected_row = row], row)

NewProject(name, path, order) ==
    [ name |-> name, path |-> path, insert_order |-> order, last_used |-> 0,
      initialized |-> FALSE, subtabs |-> <<>>, active_subtab |-> NULL,
      subtab_counter |-> 0, saved_subtabs |-> <<>>, saved_active_subtab |-> 0,
      tabs_box |-> <<>>, sub |-> <<>>,
      drag_tab |-> NULL, drag_active |-> FALSE, drag_start_x |-> 0 ]

\* The project create_project made: it is the last one of the list.
LastProject(W) == W.app.projects[Len(W.app.projects)]

\* Mutant of create_project: only a project that gets its terminal becomes the active
\* project.
create_project_quietly(W, name, path, init_terminal) ==
    LET a == W.app
        p == g_new0(DOMAIN a.proj)
        W0 == [W EXCEPT !.app.proj = (p :> NewProject(name, path, 0)) @@ a.proj]
        W1 == [W0 EXCEPT
                 !.app.sidebar = gtk_list_box_append(W0.app, p, W.pick),
                 !.app.proj[p].insert_order = Len(a.projects),
                 !.app.notebook_page = IF a.notebook_page = NULL THEN p ELSE @,
                 !.app.projects = Append(a.projects, p)]
    IN IF init_terminal
       THEN LET W2 == [create_subtab(W1, p, TabName(1), path) EXCEPT
                         !.app.proj[p].subtab_counter = 1,
                         !.app.proj[p].initialized = TRUE,
                         !.app.notebook_page = p,
                         !.app.active_project = p]
            IN gtk_list_box_select_row(W2, p)
       ELSE W1

create_project(W, name, path, init_terminal) ==
    LET a == W.app
        p == g_new0(DOMAIN a.proj)
        \* the row is appended to the sidebar while insert_order is still the 0 of g_new0
        W0 == [W EXCEPT !.app.proj = (p :> NewProject(name, path, 0)) @@ a.proj]
        W1 == [W0 EXCEPT
                 !.app.sidebar = gtk_list_box_append(W0.app, p, W.pick),
                 !.app.proj[p].insert_order = Len(a.projects),
                 \* gtk_notebook_append_page shows the first page it is given
                 !.app.notebook_page = IF a.notebook_page = NULL THEN p ELSE @,
                 !.app.projects = Append(a.projects, p),
                 !.app.active_project = p]
    IN IF init_terminal
       THEN LET W2 == [create_subtab(W1, p, TabName(1), path) EXCEPT
                         !.app.proj[p].subtab_counter = 1,
                         !.app.proj[p].initialized = TRUE,
                         !.app.notebook_page = p]
            IN gtk_list_box_select_row(W2, p)
       ELSE W1

\* ---------------------------------------------------------- load_session

\* Mutant of LoadInitTerminal: load_session creates its projects with their terminal.
LoadInitTerminalEager == TRUE

\* The init_terminal argument load_session gives create_project.
LoadInitTerminal == FALSE

RECURSIVE LoadProjects(_, _)
\* The loop of load_session over the "projects" array.
LoadProjects(W, arr) ==
    IF arr = <<>> THEN W
    ELSE LET o == Head(arr)
             W1 == create_project(W, o.name, o.path, LoadInitTerminal)
             p == LastProject(W1)
             W2 == [W1 EXCEPT !.app.proj[p].last_used = o.last_used,
                              !.app.proj[p].saved_subtabs = o.subtabs,
                              !.app.proj[p].saved_active_subtab = o.active_subtab_index]
         IN LoadProjects(W2, Tail(arr))

\* A line of projects.conf is "[<timestamp>|]<path>"; it is held as what stands before
\* its first '|' and what stands after it, or as its text alone when it has no '|'.
NoPipe == "(no pipe)"

\* Mutant of g_ascii_strtoll: no digits are read.
g_ascii_strtoll_none(str) == 0

\* g_ascii_strtoll(line, NULL, 10) on the texts that occur: 0 when there is no number.
g_ascii_strtoll(str) ==
    CASE str = "1" -> 1
      [] str = "2" -> 2
      [] OTHER -> 0

\* g_path_get_basename on the paths that occur.
g_path_get_basename(path) ==
    CASE path = "/w/api" -> "api"
      [] path = "/w/Web" -> "Web"
      [] path = "/w/doc" -> "doc"
      [] path = "|/w/doc" -> "doc"

\* The path and the last_used load_session takes from a line that is not empty: the
\* text before a '|' that is not the first character is the timestamp.
LegacyLine(l) ==
    IF l.after # NoPipe /\ l.before # ""
    THEN [last_used |-> g_ascii_strtoll(l.before), path |-> l.after]
    ELSE [last_used |-> 0,
          path |-> IF l.after = NoPipe THEN l.before ELSE l.before \o "|" \o l.after]

RECURSIVE LoadLegacy(_, _)
\* The loop of load_session over the lines of projects.conf.
LoadLegacy(W, lines) ==
    IF lines = <<>> THEN W
    ELSE IF Head(lines).before = "" /\ Head(lines).after = NoPipe
    THEN LoadLegacy(W, Tail(lines))
    ELSE LET l == LegacyLine(Head(lines))
             W1 == create_project(W, g_path_get_basename(l.path), l.path, LoadInitTerminal)
             p == LastProject(W1)
         IN LoadLegacy([W1 EXCEPT !.app.proj[p].last_used = l.last_used], Tail(lines))

\* Mutant of SessionExists: a session file that cannot be parsed counts as none.
SessionParses(file) == file.kind = "json"

\* g_file_test(session_path, G_FILE_TEST_EXISTS)
SessionExists(file) == file.kind # "absent"

load_session(W) ==
    IF ~SessionExists(W.session)
    THEN IF legacy.kind = "absent" THEN W
         ELSE LET W1 == LoadLegacy(W, legacy.lines)
                  W2 == [W1 EXCEPT !.app.sort_mode = ParseSortMode(legacy.sort, @)]
              IN save_session(W2)
    ELSE IF W.session.kind \in {"unreadable", "invalid_json", "not_object"} THEN W
    ELSE LET W1 == [W EXCEPT !.app.sort_mode =
                        ParseSortMode(W.session.sort_mode, SORT_NONE)]
         IN IF W.session.kind = "no_projects" THEN W1
            ELSE LET W2 == LoadProjects(W1, W.session.projects)
                     active_proj == g_list_nth(W2.app.projects, W.session.active_project_index)
                 IN IF active_proj # NULL
                    THEN gtk_list_box_select_row(
                             [W2 EXCEPT !.app.active_project = active_proj,
                                        !.app.notebook_page = active_proj],
                             active_proj)
                    ELSE W2

\* ------------------------------------------------------------ close_subtab

\* Mutant of Disconnect: close_subtab leaves the queued events their handlers.
DisconnectNothing(q, p, s) == q

\* What close_subtab does to the main loop's queue: g_signal_handlers_disconnect_by_data
\* leaves a queued child-exited of this terminal without a handler, and gtk_box_remove
\* destroys the close button a queued click was meant for.
Disconnect(q, p, s) ==
    { IF e.p = p /\ e.s = s THEN [e EXCEPT !.stale = TRUE] ELSE e : e \in q }

\* Mutant of AdjacentSubtab: the previous one of the list, else the next.
AdjacentSubtabBefore(subtabs, s) ==
    LET i == g_list_index(subtabs, s) + 1
    IN IF i > 1 THEN subtabs[i - 1]
       ELSE IF i < Len(subtabs) THEN subtabs[i + 1]
       ELSE NULL

\* The subtab close_subtab activates first: the next one of the list, else the previous.
AdjacentSubtab(subtabs, s) ==
    LET i == g_list_index(subtabs, s) + 1
    IN IF i < Len(subtabs) THEN subtabs[i + 1]
       ELSE IF i > 1 THEN subtabs[i - 1]
       ELSE NULL

\* Mutant of WasLast: closing the last subtab is not noticed.
WasLastNever(subtabs) == FALSE

\* gboolean was_last = (g_list_length(project->subtabs) == 1)
WasLast(subtabs) == Len(subtabs) = 1

close_subtab(W, p, s) ==
    LET P == W.app.proj[p] IN
    IF s = NULL \/ P.sub[s].closing THEN W
    ELSE LET was_last == WasLast(P.subtabs)
             W0 == [W EXCEPT !.app.proj[p].sub[s].closing = TRUE,
                             !.pending = Disconnect(@, p, s)]
             next == AdjacentSubtab(P.subtabs, s)
             W1 == IF P.active_subtab = s /\ ~was_last /\ next # NULL
                   THEN on_subtab_button_clicked(W0, p, next)
                   ELSE W0
             W2 == [W1 EXCEPT
                      !.app.proj[p].tabs_box = g_list_remove(@, s),
                      !.app.proj[p].subtabs = g_list_remove(@, s),
                      !.app.proj[p].active_subtab = IF @ = s THEN NULL ELSE @,
                      !.app.proj[p].sub = [x \in (DOMAIN P.sub) \ {s} |-> P.sub[x]],
                      !.app.proj[p].initialized = IF was_last THEN FALSE ELSE @]
         IN save_session(W2)

on_close_subtab_clicked(W, p, s) == close_subtab(W, p, s)

on_terminal_child_exited(W, p, s) ==
    IF W.app.proj[p].sub[s].closing THEN W ELSE close_subtab(W, p, s)

\* -------------------------------------------------------------- add subtab

on_add_subtab_clicked(W, p) ==
    LET P == W.app.proj[p] IN
    IF ~P.initialized
    THEN [create_subtab(free_saved_subtabs(W, p), p, TabName(1), P.path) EXCEPT
            !.app.proj[p].subtab_counter = 1,
            !.app.proj[p].initialized = TRUE]
    ELSE create_subtab([W EXCEPT !.app.proj[p].subtab_counter = @ + 1],
                       p, TabName(P.subtab_counter + 1), P.path)

\* Mutant of on_sidebar_add_subtab_clicked: an uninitialized project gets its saved
\* subtabs back, as it does when it is selected.
on_sidebar_add_subtab_restoring(W, p) ==
    LET P == W.app.proj[p] IN
    IF ~P.initialized
    THEN [Materialize(W, p) EXCEPT !.app.proj[p].initialized = TRUE]
    ELSE create_subtab([W EXCEPT !.app.proj[p].subtab_counter = @ + 1],
                       p, TabName(P.subtab_counter + 1), P.path)

on_sidebar_add_subtab_clicked(W, p) ==
    LET P == W.app.proj[p] IN
    IF ~P.initialized
    THEN [create_subtab(free_saved_subtabs(W, p), p, TabName(1), P.path) EXCEPT
            !.app.proj[p].subtab_counter = 1,
            !.app.proj[p].initialized = TRUE]
    ELSE create_subtab([W EXCEPT !.app.proj[p].subtab_counter = @ + 1],
                       p, TabName(P.subtab_counter + 1), P.path)

\* ---------------------------------------------------------------- projects

on_folder_selected(W, folder) ==
    save_session(create_project(W, folder.name, folder.path, TRUE))

\* gtk_notebook_remove_page: when the page shown is removed, the notebook shows the
\* next page, else the previous one.
PageAfterRemove(a, p) ==
    IF a.notebook_page # p THEN a.notebook_page
    ELSE AdjacentSubtab(a.projects, p)

\* Mutant of on_remove_project_clicked: without an active project it saves and selects
\* the first project.
on_remove_project_clicked_anyway(W) ==
    LET W2 == save_session(W)
    IN IF W2.app.projects # <<>>
       THEN LET first == Head(W2.app.projects)
            IN gtk_list_box_select_row(
                   [W2 EXCEPT !.app.active_project = first,
                              !.app.notebook_page = first],
                   first)
       ELSE [W2 EXCEPT !.app.active_project = NULL]

\* Mutant of on_remove_project_clicked: the last remaining project is selected.
on_remove_project_clicked_last(W) ==
    LET a == W.app
        p == a.active_project
    IN IF p = NULL THEN W
       ELSE LET W1 == [W EXCEPT
                         !.app.notebook_page = PageAfterRemove(a, p),
                         !.app.selected_row = IF @ = p THEN NULL ELSE @,
                         !.app.projects = g_list_remove(@, p),
                         !.app.sidebar = g_list_remove(@, p),
                         !.app.proj = [x \in (DOMAIN a.proj) \ {p} |-> a.proj[x]]]
                W2 == save_session(W1)
            IN IF W2.app.projects # <<>>
               THEN LET last == W2.app.projects[Len(W2.app.projects)]
                    IN gtk_list_box_select_row(
                           [W2 EXCEPT !.app.active_project = last,
                                      !.app.notebook_page = last],
                           last)
               ELSE [W2 EXCEPT !.app.active_project = NULL]

on_remove_project_clicked(W) ==
    LET a == W.app
        p == a.active_project
    IN IF p = NULL THEN W
       ELSE LET W1 == [W EXCEPT
                         !.app.notebook_page = PageAfterRemove(a, p),
                         \* gtk_list_box_remove of the selected row emits
                         \* "row-selected" with no row: on_project_selected returns
                         !.app.selected_row = IF @ = p THEN NULL ELSE @,
                         !.app.projects = g_list_remove(@, p),
                         !.app.sidebar = g_list_remove(@, p),
                         !.app.proj = [x \in (DOMAIN a.proj) \ {p} |-> a.proj[x]],
                         !.pending = { IF e.p = p THEN [e EXCEPT !.stale = TRUE] ELSE e
                                       : e \in W.pending }]
                \* app->active_project still holds the freed project here
                W2 == save_session(W1)
            IN IF W2.app.projects # <<>>
               THEN LET first == Head(W2.app.projects)
                    IN gtk_list_box_select_row(
                           [W2 EXCEPT !.app.active_project = first,
                                      !.app.notebook_page = first],
                           first)
               ELSE [W2 EXCEPT !.app.active_project = NULL]

\* Mutant of on_window_destroy: the projects are freed before the session is saved.
on_window_destroy_torn(W) ==
    save_session([W EXCEPT !.app = NewApp, !.pending = {}])

\* on_window_destroy: the session is saved, then every subtab and project is freed.
on_window_destroy(W) ==
    [save_session(W) EXCEPT !.app = NewApp, !.pending = {}]

\* -------------------------------------------------------------------- sort

\* Mutant of NextSortMode: the cycle is run backwards.
NextSortModeBack(m) ==
    CASE m = SORT_NONE -> SORT_MRU
      [] m = SORT_MRU -> SORT_ALPHA
      [] OTHER -> SORT_NONE

NextSortMode(m) ==
    CASE m = SORT_NONE -> SORT_ALPHA
      [] m = SORT_ALPHA -> SORT_MRU
      [] OTHER -> SORT_NONE

on_sort_clicked(W) ==
    save_session(apply_sort([W EXCEPT !.app.sort_mode = NextSortMode(@)]))

\* -------------------------------------------------------------- terminals

\* Mutant of on_terminal_title_changed: an empty title is taken too.
on_terminal_title_changed_any(W, p, s, title) ==
    [W EXCEPT !.app.proj[p].sub[s].name = title]

on_terminal_title_changed(W, p, s, title) ==
    IF title # "" THEN [W EXCEPT !.app.proj[p].sub[s].name = title] ELSE W


\* ----------------------------------------------------------- drag reorder

\* The layout of a tab strip: every tab is TabWidth wide, the tabs follow one another
\* from x = 0, and the close button of a tab is its part from CloseFrom on.
TabWidth == 10
CloseFrom == 8

\* fabs(offset_x) < 6.0
DragThreshold == 6

Abs(x) == IF x < 0 THEN -x ELSE x

\* gtk_widget_compute_bounds: the midpoint of the tab at (1-based) place i of the strip.
Mid(i) == (i - 1) * TabWidth + TabWidth \div 2

\* (1-based) place of a tab in a strip, 0 when it is not there.
Place(strip, s) == g_list_index(strip, s) + 1

\* gtk_widget_pick, then is_close_button_hit / find_tab_button_ancestor: what lies at x.
PickedPlace(strip, x) == IF x >= 0 /\ x < Len(strip) * TabWidth THEN (x \div TabWidth) + 1 ELSE 0
CloseButtonHit(strip, x) == PickedPlace(strip, x) # 0 /\ (x % TabWidth) >= CloseFrom

\* gtk_box_reorder_child_after(box, child, sibling): child right after sibling, first
\* when there is no sibling.
gtk_box_reorder_child_after(strip, child, sibling) ==
    LET rest == g_list_remove(strip, child)
        k == Place(rest, sibling)
    IN SubSeq(rest, 1, k) \o <<child>> \o SubSeq(rest, k + 1, Len(rest))

\* gtk_widget_get_prev_sibling
PrevSibling(strip, s) == IF Place(strip, s) > 1 THEN strip[Place(strip, s) - 1] ELSE NULL

MovingLeft(strip, dragged, i, current_x) ==
    Mid(Place(strip, dragged)) > Mid(i) /\ current_x < Mid(i)
MovingRight(strip, dragged, i, current_x) ==
    Mid(Place(strip, dragged)) < Mid(i) /\ current_x > Mid(i)

\* The places of the children whose midpoint lies between the dragged tab's and the
\* pointer.
Crossed(strip, dragged, current_x) ==
    { i \in 1..Len(strip) :
        /\ strip[i] # dragged
        /\ \/ MovingLeft(strip, dragged, i, current_x)
           \/ MovingRight(strip, dragged, i, current_x) }

\* The loop of on_tab_drag_update over the children of the strip: the first child whose
\* midpoint is crossed decides, and the handler returns.
ReorderStrip(strip, dragged, current_x) ==
    LET crossed == Crossed(strip, dragged, current_x)
    IN IF crossed = {} THEN strip
       ELSE LET i == CHOOSE j \in crossed : \A k \in crossed : j <= k
                child == strip[i]
            IN IF MovingLeft(strip, dragged, i, current_x)
               THEN IF PrevSibling(strip, child) # dragged
                    THEN gtk_box_reorder_child_after(strip, dragged, PrevSibling(strip, child))
                    ELSE strip
               ELSE gtk_box_reorder_child_after(strip, dragged, child)

\* Mutant of DragBeginTakes: a press on a close button is taken too.
DragBeginTakesClose(strip, start_x) == PickedPlace(strip, start_x) # 0

\* Whether the press is taken (a tab, and not its close button); else the gesture is denied.
DragBeginTakes(strip, start_x) ==
    ~CloseButtonHit(strip, start_x) /\ PickedPlace(strip, start_x) # 0

on_tab_drag_begin(W, p, start_x) ==
    LET strip == W.app.proj[p].tabs_box IN
    IF ~DragBeginTakes(strip, start_x) THEN W
    ELSE [W EXCEPT !.app.proj[p].drag_tab = strip[PickedPlace(strip, start_x)],
                   !.app.proj[p].drag_active = FALSE,
                   !.app.proj[p].drag_start_x = start_x]

\* Mutant of DragMoves: no threshold.
DragMovesAlways(active, offset_x) == TRUE

\* Whether on_tab_drag_update goes past its threshold test.
DragMoves(active, offset_x) == active \/ ~(Abs(offset_x) < DragThreshold)

on_tab_drag_update(W, p, offset_x) ==
    LET P == W.app.proj[p]
        dragged == P.drag_tab
    IN IF dragged = NULL THEN W
       ELSE IF ~DragMoves(P.drag_active, offset_x) THEN W
       ELSE [W EXCEPT !.app.proj[p].drag_active = TRUE,
                      !.app.proj[p].sub[dragged].dragging = TRUE,
                      !.app.proj[p].tabs_box =
                          ReorderStrip(P.tabs_box, dragged, P.drag_start_x + offset_x)]

\* Mutant of rebuild_subtabs_list: the strip is not read back.
keep_subtabs_list(W, p) == W

rebuild_subtabs_list(W, p) ==
    [W EXCEPT !.app.proj[p].subtabs = W.app.proj[p].tabs_box]

\* Mutant of on_tab_drag_end: the release commits only when the strip has another order
\* than the subtab sequence.
on_tab_drag_end_if_moved(W, p) ==
    LET P == W.app.proj[p]
        W1 == IF P.drag_tab # NULL /\ P.drag_active
              THEN LET W0 == [W EXCEPT !.app.proj[p].sub[P.drag_tab].dragging = FALSE]
                   IN IF P.tabs_box # P.subtabs
                      THEN save_session(rebuild_subtabs_list(W0, p))
                      ELSE W0
              ELSE W
    IN [W1 EXCEPT !.app.proj[p].drag_tab = NULL,
                  !.app.proj[p].drag_active = FALSE]

\* Mutant of on_tab_drag_end: the tab that was dragged is shown after the release.
on_tab_drag_end_showing(W, p) ==
    LET P == W.app.proj[p]
        W1 == IF P.drag_tab # NULL /\ P.drag_active
              THEN save_session(rebuild_subtabs_list(
                       [W EXCEPT !.app.proj[p].sub[P.drag_tab].dragging = FALSE,
                                 !.app.proj[p].active_subtab = P.drag_tab], p))
              ELSE W
    IN [W1 EXCEPT !.app.proj[p].drag_tab = NULL,
                  !.app.proj[p].drag_active = FALSE]

on_tab_drag_end(W, p) ==
    LET P == W.app.proj[p]
        W1 == IF P.drag_tab # NULL /\ P.drag_active
              THEN save_session(rebuild_subtabs_list(
                       [W EXCEPT !.app.proj[p].sub[P.drag_tab].dragging = FALSE], p))
              ELSE W
    IN [W1 EXCEPT !.app.proj[p].drag_tab = NULL,
                  !.app.proj[p].drag_active = FALSE]


\* ------------------------------------------------------------ the actions

Cur == World(app, now, session, pending)

NoGesture == [seq |-> NULL, far |-> 0, moves |-> 0, over |-> {}]

RanAfter(W, op, did) ==
    /\ app' = W.app
    /\ now' = W.now
    /\ session' = W.session
    /\ pending' = W.pending
    /\ h' = [op |-> op, saves |-> W.saves, did |-> did]

Ran(W, op) == RanAfter(W, op, NoGesture)

Live(p) == phase = "running" /\ p \in DOMAIN app.proj
LiveTab(p, s) == Live(p) /\ s \in DOMAIN app.proj[p].sub

\* No pointer sequence is in progress: the user can click something.
PointerFree == gest.seq = NULL

\* activate(): a new process builds the window, connects the handlers, then calls
\* load_session and apply_sort.
Activate ==
    /\ phase = "off"
    /\ phase' = "running"
    /\ Ran(apply_sort(load_session(World(NewApp, now, session, {}))), "activate")
    /\ UNCHANGED <<legacy, gest>>

\* The folder dialog returns a folder.
FolderSelected(folder) ==
    /\ phase = "running" /\ PointerFree
    /\ \E pick \in 0..Len(app.sidebar) :
           Ran(on_folder_selected([Cur EXCEPT !.pick = pick], folder), "on_folder_selected")
    /\ UNCHANGED <<phase, legacy, gest>>

\* The user clicks a sidebar row that is not the selected one: GtkListBox selects it.
activateProject(p) ==
    /\ Live(p) /\ PointerFree
    /\ app.selected_row # p
    /\ Ran(gtk_list_box_select_row(Cur, p), "activateProject")
    /\ UNCHANGED <<phase, legacy, gest>>

\* The "+" of the tab strip: only the strip of the page shown can be clicked.
AddSubtabClicked(p) ==
    /\ Live(p) /\ PointerFree
    /\ app.notebook_page = p
    /\ Ran(on_add_subtab_clicked(Cur, p), "on_add_subtab_clicked")
    /\ UNCHANGED <<phase, legacy, gest>>

\* The "+" of a sidebar row.
SidebarAddSubtabClicked(p) ==
    /\ Live(p) /\ PointerFree
    /\ Ran(on_sidebar_add_subtab_clicked(Cur, p), "on_sidebar_add_subtab_clicked")
    /\ UNCHANGED <<phase, legacy, gest>>

\* A tab of the strip shown is clicked.
SubtabButtonClicked(p, s) ==
    /\ LiveTab(p, s) /\ PointerFree
    /\ app.notebook_page = p
    /\ app.proj[p].active_subtab # s
    /\ Ran(on_subtab_button_clicked(Cur, p, s), "on_subtab_button_clicked")
    /\ UNCHANGED <<phase, legacy, gest>>

\* The close button of a tab is clicked and the click dispatched at once.
CloseSubtabClicked(p, s) ==
    /\ LiveTab(p, s) /\ PointerFree
    /\ app.notebook_page = p
    /\ Ran(on_close_subtab_clicked(Cur, p, s), "on_close_subtab_clicked")
    /\ UNCHANGED <<phase, legacy, gest>>

\* The shell of a terminal exits and "child-exited" is dispatched at once.
TerminalChildExited(p, s) ==
    /\ LiveTab(p, s)
    /\ Ran(on_terminal_child_exited(Cur, p, s), "on_terminal_child_exited")
    /\ UNCHANGED <<phase, legacy, gest>>

RemoveProjectClicked ==
    /\ phase = "running" /\ PointerFree
    /\ Ran(on_remove_project_clicked(Cur), "on_remove_project_clicked")
    /\ UNCHANGED <<phase, legacy, gest>>

SortClicked ==
    /\ phase = "running" /\ PointerFree
    /\ Ran(on_sort_clicked(Cur), "on_sort_clicked")
    /\ UNCHANGED <<phase, legacy, gest>>

TerminalTitleChanged(p, s, title) ==
    /\ LiveTab(p, s)
    /\ Ran(on_terminal_title_changed(Cur, p, s, title), "on_terminal_title_changed")
    /\ UNCHANGED <<phase, legacy, gest>>

\* The shell of a terminal reports its current directory (OSC 7), which
\* vte_terminal_get_current_directory_uri then returns.
TerminalDirectoryChanged(p, s, dir) ==
    /\ LiveTab(p, s)
    /\ app.proj[p].sub[s].cwd # dir
    /\ Ran([Cur EXCEPT !.app.proj[p].sub[s].cwd = dir], "current_directory_changed")
    /\ UNCHANGED <<phase, legacy, gest>>

\* on_window_destroy saves the session, frees everything, and the process ends.
WindowDestroy ==
    /\ phase = "running" /\ PointerFree
    /\ phase' = "off"
    /\ Ran(on_window_destroy(Cur), "on_window_destroy")
    /\ gest' = NoGesture
    /\ UNCHANGED legacy

\* ---- the main loop's queue: a close click and a child-exited that race

ExitEvent(p, s) == [kind |-> "child-exited", p |-> p, s |-> s, stale |-> FALSE]
ClickEvent(p, s) == [kind |-> "clicked", p |-> p, s |-> s, stale |-> FALSE]

\* The shell of a terminal exits: VTE's child watch will emit "child-exited".
ChildProcessExits(p, s) ==
    /\ LiveTab(p, s)
    /\ \A e \in pending : ~(e.kind = "child-exited" /\ e.p = p /\ e.s = s)
    /\ pending' = pending \cup {ExitEvent(p, s)}
    /\ h' = [op |-> "child exits", saves |-> 0, did |-> NoGesture]
    /\ UNCHANGED <<phase, app, now, session, legacy, gest>>

\* The user releases the pointer over the close button of a tab: the event is queued.
CloseClickQueued(p, s) ==
    /\ LiveTab(p, s) /\ PointerFree
    /\ app.notebook_page = p
    /\ \A e \in pending : e.kind # "clicked"
    /\ pending' = pending \cup {ClickEvent(p, s)}
    /\ h' = [op |-> "close click", saves |-> 0, did |-> NoGesture]
    /\ UNCHANGED <<phase, app, now, session, legacy, gest>>

\* Whether the object a queued event carries to its handler is still allocated.
Allocated(a, e) == e.p \in DOMAIN a.proj /\ e.s \in DOMAIN a.proj[e.p].sub

\* The main loop dispatches a queued event: to nothing when close_subtab or
\* on_remove_project_clicked has taken the handler or the widget away, else to its
\* handler.  A handler given a freed SubTab reads freed memory: the process goes on,
\* or it dies.
Dispatch(e) ==
    /\ phase = "running"
    /\ e \in pending
    /\ LET W == [Cur EXCEPT !.pending = pending \ {e}]
       IN IF e.stale
          THEN Ran(W, "not delivered") /\ UNCHANGED phase
          ELSE IF ~Allocated(app, e)
          THEN Ran(W, "use after free") /\ phase' \in {"running", "crashed"}
          ELSE IF e.kind = "clicked"
          THEN Ran(on_close_subtab_clicked(W, e.p, e.s), "on_close_subtab_clicked")
               /\ UNCHANGED phase
          ELSE Ran(on_terminal_child_exited(W, e.p, e.s), "on_terminal_child_exited")
               /\ UNCHANGED phase
    /\ UNCHANGED <<legacy, gest>>

\* ---- the drag gesture of the strip of the page shown

\* Where the pointer can go down: in each tab at its left edge and on its close button,
\* and past the last tab.
PressLocal == {0, 9}
PressPoints(p) ==
    { (i - 1) * TabWidth + l : i \in 1..(Len(app.proj[p].tabs_box) + 1), l \in PressLocal }

\* The offsets from the press point a pointer move can report.
Offsets == {-16, -6, -5, 5, 6, 16}

\* Button press on the strip: GtkGestureDrag emits "drag-begin".  A denied sequence
\* gets no further events.
TabDragBegin(p, start_x) ==
    /\ Live(p) /\ PointerFree
    /\ app.notebook_page = p
    /\ Ran(on_tab_drag_begin(Cur, p, start_x), "on_tab_drag_begin")
    /\ gest' = IF DragBeginTakes(app.proj[p].tabs_box, start_x)
               THEN [NoGesture EXCEPT !.seq = p]
               ELSE NoGesture
    /\ UNCHANGED <<phase, legacy>>

Max(a, b) == IF a > b THEN a ELSE b

\* Pointer motion of the sequence: "drag-update".  gest keeps what the sequence did: the
\* farthest offset reported, and, of the updates that went past the threshold test, how
\* many moved the tab (two stands for more) and the tabs whose midpoint they crossed.
TabDragUpdate(p, offset_x) ==
    /\ Live(p) /\ gest.seq = p
    /\ LET P == app.proj[p]
           W == on_tab_drag_update(Cur, p, offset_x)
           past == P.drag_tab # NULL /\ DragMoves(P.drag_active, offset_x)
       IN /\ Ran(W, "on_tab_drag_update")
          /\ gest' = [gest EXCEPT
                        !.far = Max(@, Abs(offset_x)),
                        !.moves = IF W.app.proj[p].tabs_box # P.tabs_box
                                  THEN (IF @ = 0 THEN 1 ELSE 2) ELSE @,
                        !.over = IF past
                                 THEN @ \cup { P.tabs_box[i] :
                                      i \in Crossed(P.tabs_box, P.drag_tab, P.drag_start_x + offset_x) }
                                 ELSE @]
    /\ UNCHANGED <<phase, legacy>>

\* Button release: "drag-end".
TabDragEnd(p) ==
    /\ Live(p) /\ gest.seq = p
    /\ RanAfter(on_tab_drag_end(Cur, p), "on_tab_drag_end", gest)
    /\ gest' = NoGesture
    /\ UNCHANGED <<phase, legacy>>

\* ---- a pointer sequence whose events reach the handlers whether or not the press
\* was denied

\* The mark of a denied sequence on the strip of project p.
Denied(p) == 0 - p

\* Whether on_tab_drag_begin sets the sequence to GTK_EVENT_SEQUENCE_DENIED.
DragDenies(strip, start_x) == ~DragBeginTakes(strip, start_x)

\* Button press on the strip: "drag-begin", after which the sequence is denied or not.
TabPress(p, start_x) ==
    /\ Live(p) /\ PointerFree
    /\ app.notebook_page = p
    /\ Ran(on_tab_drag_begin(Cur, p, start_x), "on_tab_drag_begin")
    /\ gest' = IF DragDenies(app.proj[p].tabs_box, start_x)
               THEN [NoGesture EXCEPT !.seq = Denied(p)]
               ELSE [NoGesture EXCEPT !.seq = p]
    /\ UNCHANGED <<phase, legacy>>

\* Pointer motion of a denied sequence, delivered to "drag-update".
DeniedDragUpdate(p, offset_x) ==
    /\ Live(p) /\ gest.seq = Denied(p)
    /\ Ran(on_tab_drag_update(Cur, p, offset_x), "on_tab_drag_update")
    /\ gest' = [gest EXCEPT !.far = Max(@, Abs(offset_x))]
    /\ UNCHANGED <<phase, legacy>>

\* Button release of a denied sequence, delivered to "drag-end".
DeniedDragEnd(p) ==
    /\ Live(p) /\ gest.seq = Denied(p)
    /\ RanAfter(on_tab_drag_end(Cur, p), "on_tab_drag_end", gest)
    /\ gest' = NoGesture
    /\ UNCHANGED <<phase, legacy>>

\* ---- a pointer sequence during which shells exit

\* Whether the widget "drag-tab" points to is still a child of the strip: close_subtab
\* removes the tab's widget from the box, which drops its last reference, and leaves
\* "drag-tab" as it is.
DragTabLive(p) ==
    LET P == app.proj[p]
    IN P.drag_tab \in DOMAIN P.sub /\ Place(P.tabs_box, P.drag_tab) > 0

\* "drag-update" when the tab pressed has been closed since the press.  Below the
\* threshold the handler returns before it touches the widget; past it, it sets
\* "drag-active" and hands the destroyed widget to gtk_widget_add_css_class and
\* gtk_widget_compute_bounds: the process goes on with the strip as it is, or it dies.
ClosedDragUpdate(p, offset_x) ==
    /\ Live(p) /\ gest.seq = p
    /\ app.proj[p].drag_tab # NULL /\ ~DragTabLive(p)
    /\ IF ~DragMoves(app.proj[p].drag_active, offset_x)
       THEN Ran(Cur, "on_tab_drag_update") /\ UNCHANGED phase
       ELSE /\ Ran([Cur EXCEPT !.app.proj[p].drag_active = TRUE], "use after free")
            /\ phase' \in {"running", "crashed"}
    /\ gest' = [gest EXCEPT !.far = Max(@, Abs(offset_x))]
    /\ UNCHANGED legacy

\* "drag-end" when the tab pressed has been closed since the press.  An armed sequence
\* only clears "drag-tab"; an active one hands the destroyed widget to
\* gtk_widget_remove_css_class, and if the process goes on, reads the strip back and saves.
ClosedDragEnd(p) ==
    /\ Live(p) /\ gest.seq = p
    /\ app.proj[p].drag_tab # NULL /\ ~DragTabLive(p)
    /\ LET P == app.proj[p]
           W1 == IF P.drag_active THEN save_session(rebuild_subtabs_list(Cur, p)) ELSE Cur
           W2 == [W1 EXCEPT !.app.proj[p].drag_tab = NULL,
                            !.app.proj[p].drag_active = FALSE]
       IN IF P.drag_active
          THEN RanAfter(W2, "use after free", gest) /\ phase' \in {"running", "crashed"}
          ELSE RanAfter(W2, "on_tab_drag_end", gest) /\ UNCHANGED phase
    /\ gest' = NoGesture
    /\ UNCHANGED legacy

\* ---- handlers that run while session.json cannot be written

WriteFails == [Cur EXCEPT !.write_fails = TRUE]

FolderSelectedWriteFails(folder) ==
    /\ phase = "running" /\ PointerFree
    /\ \E pick \in 0..Len(app.sidebar) :
           Ran(on_folder_selected([WriteFails EXCEPT !.pick = pick], folder),
               "on_folder_selected")
    /\ UNCHANGED <<phase, legacy, gest>>

CloseSubtabClickedWriteFails(p, s) ==
    /\ LiveTab(p, s) /\ PointerFree
    /\ app.notebook_page = p
    /\ Ran(on_close_subtab_clicked(WriteFails, p, s), "on_close_subtab_clicked")
    /\ UNCHANGED <<phase, legacy, gest>>

RemoveProjectClickedWriteFails ==
    /\ phase = "running" /\ PointerFree
    /\ Ran(on_remove_project_clicked(WriteFails), "on_remove_project_clicked")
    /\ UNCHANGED <<phase, legacy, gest>>

SortClickedWriteFails ==
    /\ phase = "running" /\ PointerFree
    /\ Ran(on_sort_clicked(WriteFails), "on_sort_clicked")
    /\ UNCHANGED <<phase, legacy, gest>>

WindowDestroyWriteFails ==
    /\ phase = "running" /\ PointerFree
    /\ phase' = "off"
    /\ Ran(on_window_destroy(WriteFails), "on_window_destroy")
    /\ gest' = NoGesture
    /\ UNCHANGED legacy

\* ------------------------------------------------------- the initial files

NoFile == [kind |-> "absent"]

\* Session files that cannot be parsed: one that cannot be read, one that is not JSON,
\* one whose root is an array, and one whose root object has no "projects".
Unreadable == [kind |-> "unreadable"]
InvalidJson == [kind |-> "invalid_json"]
NotObject == [kind |-> "not_object"]
NoProjects == [kind |-> "no_projects", sort_mode |-> "alpha"]

\* projects.conf with a stamped line, an empty line, a line without stamp and a line
\* that begins with '|', and sort.conf saying "mru".
LegacyConf ==
    [ kind |-> "legacy", sort |-> "mru",
      lines |-> << [before |-> "2", after |-> "/w/api"],
                   [before |-> "", after |-> NoPipe],
                   [before |-> "/w/Web", after |-> NoPipe],
                   [before |-> "", after |-> "/w/doc"] >> ]

\* Two projects, the second one active with two saved subtabs, the first with none.
SessionA ==
    [ kind |-> "json", active_project_index |-> 1, sort_mode |-> "mru",
      projects |-> <<
        [ name |-> "api", path |-> "/w/api", last_used |-> 2, active_subtab_index |-> 0,
          subtabs |-> << >> ],
        [ name |-> "Web", path |-> "/w/Web", last_used |-> 1, active_subtab_index |-> 1,
          subtabs |-> << [name |-> "Tab 1", working_dir |-> "/w/Web"],
                         [name |-> "vim", working_dir |-> "/tmp"] >> ] >> ]

\* Two projects with saved subtabs, an active project index past the end, and the first
\* project's active subtab index past the end.
SessionB ==
    [ kind |-> "json", active_project_index |-> 7, sort_mode |-> "alpha",
      projects |-> <<
        [ name |-> "api", path |-> "/w/api", last_used |-> 2, active_subtab_index |-> 5,
          subtabs |-> << [name |-> "vim", working_dir |-> "/tmp"],
                         [name |-> "Tab 2", working_dir |-> "/w/api"] >> ],
        [ name |-> "Web", path |-> "/w/Web", last_used |-> 1, active_subtab_index |-> 1,
          subtabs |-> << [name |-> "Tab 1", working_dir |-> "/w/Web"],
                         [name |-> "Tab 2", working_dir |-> "/w/Web"] >> ] >> ]

\* Three projects, the second one active, the first with two saved subtabs and the third
\* with one.
SessionC ==
    [ kind |-> "json", active_project_index |-> 1, sort_mode |-> "none",
      projects |-> <<
        [ name |-> "api", path |-> "/w/api", last_used |-> 1, active_subtab_index |-> 1,
          subtabs |-> << [name |-> "Tab 1", working_dir |-> "/w/api"],
                         [name |-> "vim", working_dir |-> "/tmp"] >> ],
        [ name |-> "Web", path |-> "/w/Web", last_used |-> 2, active_subtab_index |-> 0,
          subtabs |-> << >> ],
        [ name |-> "doc", path |-> "/w/doc", last_used |-> 0, active_subtab_index |-> 0,
          subtabs |-> << [name |-> "Tab 1", working_dir |-> "/w/doc"] >> ] >> ]

\* Two projects, the first one active with two saved subtabs and an active subtab index
\* past the end, the second with one saved subtab.
SessionE ==
    [ kind |-> "json", active_project_index |-> 0, sort_mode |-> "none",
      projects |-> <<
        [ name |-> "api", path |-> "/w/api", last_used |-> 2, active_subtab_index |-> 5,
          subtabs |-> << [name |-> "vim", working_dir |-> "/tmp"],
                         [name |-> "Tab 2", working_dir |-> "/w/api"] >> ],
        [ name |-> "Web", path |-> "/w/Web", last_used |-> 1, active_subtab_index |-> 0,
          subtabs |-> << [name |-> "vim", working_dir |-> "/tmp"] >> ] >> ]

\* One project, active, with three saved subtabs of which the second is the active one.
SessionD ==
    [ kind |-> "json", active_project_index |-> 0, sort_mode |-> "none",
      projects |-> <<
        [ name |-> "api", path |-> "/w/api", last_used |-> 2, active_subtab_index |-> 1,
          subtabs |-> << [name |-> "Tab 1", working_dir |-> "/w/api"],
                         [name |-> "vim", working_dir |-> "/tmp"],
                         [name |-> "Tab 3", working_dir |-> "/w/api"] >> ] >> ]

\* The first reading of the clock is later than every timestamp of the initial files.
StartTime == 2 + 1

\* No process yet, and session.json is one of the given files.
InitWith(files) ==
    /\ phase = "off"
    /\ app = NewApp
    /\ now = StartTime
    /\ session \in files
    /\ legacy = NoFile
    /\ pending = {}
    /\ gest = NoGesture
    /\ h = [op |-> "none", saves |-> 0, did |-> NoGesture]

TabCount(p) == Len(app.proj[p].subtabs)
Tabs(p) == DOMAIN app.proj[p].sub
Projects == DOMAIN app.proj

\* The guards of the next-state relations bound the model, they are not the program's:
\* the clock is read while it is below its bound, a project is added while there are
\* fewer than the bound, a subtab while the project has fewer and its counter is below.
CanRead(clock) == now < clock
CanCreate == Len(app.projects) < MaxProjects
CanAdd(p, tabs) ==
    /\ TabCount(p) < tabs
    /\ app.proj[p].initialized => app.proj[p].subtab_counter < tabs

DragSteps(p) ==
    \/ \E x \in PressPoints(p) : TabDragBegin(p, x)
    \/ \E offset_x \in Offsets : TabDragUpdate(p, offset_x)
    \/ TabDragEnd(p)

\* ---- Spec: projects and subtabs come and go, tabs are dragged; events are dispatched
\* as they occur, and no shell exits between a press and its release

Init == InitWith({NoFile, SessionA})

Next ==
    \/ CanRead(MaxClock) /\ Activate
    \/ CanRead(MaxClock) /\ CanCreate /\ \E f \in Folders : FolderSelected(f)
    \/ CanRead(MaxClock) /\ \E p \in Projects : activateProject(p)
    \/ \E p \in Projects : CanAdd(p, MaxTabs) /\ AddSubtabClicked(p)
    \/ \E p \in Projects : CanAdd(p, MaxTabs) /\ SidebarAddSubtabClicked(p)
    \/ \E p \in Projects : \E s \in Tabs(p) : SubtabButtonClicked(p, s)
    \/ \E p \in Projects : \E s \in Tabs(p) : CloseSubtabClicked(p, s)
    \/ \E p \in Projects : \E s \in Tabs(p) : PointerFree /\ TerminalChildExited(p, s)
    \/ CanRead(MaxClock) /\ RemoveProjectClicked
    \/ WindowDestroy
    \/ \E p \in Projects : DragSteps(p)

Spec == Init /\ [][Next]_vars

\* ---- SpecProjects: projects are created, selected, removed and sorted

InitProjects == InitWith({NoFile, SessionA, SessionB, SessionC})

NextProjects ==
    \/ CanRead(MaxClockProjects) /\ Activate
    \/ CanRead(MaxClockProjects) /\ CanCreate /\ \E f \in Folders : FolderSelected(f)
    \/ CanRead(MaxClockProjects) /\ \E p \in Projects : activateProject(p)
    \/ CanRead(MaxClockProjects) /\ RemoveProjectClicked
    \/ SortClicked
    \/ WindowDestroy

SpecProjects == InitProjects /\ [][NextProjects]_vars

\* ---- SpecDrag: the tabs of the strip of one project are dragged

InitDrag == InitWith({NoFile, SessionD})

NextDrag ==
    \/ CanRead(MaxClock) /\ Activate
    \/ CanRead(MaxClock) /\ app.projects = <<>> /\ \E f \in Folders : FolderSelected(f)
    \/ \E p \in Projects : CanAdd(p, MaxDragTabs) /\ AddSubtabClicked(p)
    \/ \E p \in Projects : \E s \in Tabs(p) : SubtabButtonClicked(p, s)
    \/ \E p \in Projects : \E s \in Tabs(p) : PointerFree /\ TerminalChildExited(p, s)
    \/ \E p \in Projects : DragSteps(p)

SpecDrag == InitDrag /\ [][NextDrag]_vars

\* ---- SpecDeny: presses on tabs, on close buttons and past the last tab of a strip of
\* up to three tabs; the events of a sequence reach the handlers also when it was denied

InitDeny == InitWith({SessionD})

NextDeny ==
    \/ CanRead(MaxClock) /\ Activate
    \/ \E p \in Projects : \E s \in Tabs(p) : CloseSubtabClicked(p, s)
    \/ \E p \in Projects : \E x \in PressPoints(p) : TabPress(p, x)
    \/ \E p \in Projects : \E offset_x \in Offsets : TabDragUpdate(p, offset_x)
    \/ \E p \in Projects : TabDragEnd(p)
    \/ \E p \in Projects : \E offset_x \in Offsets : DeniedDragUpdate(p, offset_x)
    \/ \E p \in Projects : DeniedDragEnd(p)

SpecDeny == InitDeny /\ [][NextDeny]_vars

\* ---- SpecRestore: subtabs are added and shown, the window is closed and the
\* application started again, and the projects are selected

MaxClockRestore == 7
MaxRestoreTabs == 3

InitRestore == InitWith({SessionA})

NextRestore ==
    \/ CanRead(MaxClockRestore) /\ Activate
    \/ CanRead(MaxClockRestore) /\ \E p \in Projects : activateProject(p)
    \/ \E p \in Projects : CanAdd(p, MaxRestoreTabs) /\ AddSubtabClicked(p)
    \/ \E p \in Projects : \E s \in Tabs(p) : SubtabButtonClicked(p, s)
    \/ WindowDestroy

SpecRestore == InitRestore /\ [][NextRestore]_vars

\* ---- SpecDisk: projects are created, selected, removed and sorted and subtabs closed
\* while writes of session.json succeed or fail

MaxClockDisk == 6

InitDisk == InitWith({SessionA})

NextDisk ==
    \/ CanRead(MaxClockDisk) /\ Activate
    \/ CanRead(MaxClockDisk) /\ CanCreate /\ \E f \in Folders : FolderSelected(f)
    \/ CanRead(MaxClockDisk) /\ CanCreate /\ \E f \in Folders : FolderSelectedWriteFails(f)
    \/ CanRead(MaxClockDisk) /\ \E p \in Projects : activateProject(p)
    \/ \E p \in Projects : \E s \in Tabs(p) : CloseSubtabClicked(p, s)
    \/ \E p \in Projects : \E s \in Tabs(p) : CloseSubtabClickedWriteFails(p, s)
    \/ CanRead(MaxClockDisk) /\ RemoveProjectClicked
    \/ CanRead(MaxClockDisk) /\ RemoveProjectClickedWriteFails
    \/ SortClicked
    \/ SortClickedWriteFails
    \/ WindowDestroy
    \/ WindowDestroyWriteFails

SpecDisk == InitDisk /\ [][NextDisk]_vars

\* ---- SpecExit: the tabs of one strip are pressed and dragged, and the shells of its
\* terminals exit at any time, also between a press and its release

InitExit == InitWith({SessionD})

NextExit ==
    \/ CanRead(MaxClock) /\ Activate
    \/ \E p \in Projects : \E s \in Tabs(p) : TerminalChildExited(p, s)
    \/ \E p \in Projects : \E x \in PressPoints(p) : TabDragBegin(p, x)
    \/ \E p \in Projects : \E offset_x \in Offsets :
           DragTabLive(p) /\ TabDragUpdate(p, offset_x)
    \/ \E p \in Projects : DragTabLive(p) /\ TabDragEnd(p)
    \/ \E p \in Projects : \E offset_x \in Offsets : ClosedDragUpdate(p, offset_x)
    \/ \E p \in Projects : ClosedDragEnd(p)

SpecExit == InitExit /\ [][NextExit]_vars

\* ---- SpecRace: close requests wait in the main loop's queue

NextRace ==
    \/ CanRead(MaxClock) /\ Activate
    \/ CanRead(MaxClock) /\ CanCreate /\ \E f \in Folders : FolderSelected(f)
    \/ CanRead(MaxClock) /\ \E p \in Projects : activateProject(p)
    \/ \E p \in Projects : CanAdd(p, MaxTabs) /\ AddSubtabClicked(p)
    \/ \E p \in Projects : \E s \in Tabs(p) : ChildProcessExits(p, s)
    \/ \E p \in Projects : \E s \in Tabs(p) : CloseClickQueued(p, s)
    \/ \E e \in pending : Dispatch(e)

SpecRace == Init /\ [][NextRace]_vars

\* ---- SpecFrame: every kind of handler runs on one loaded session; the window stays
\* open, the terminal in front is the one that reports titles, and a pointer sequence is
\* one press on a tab, one move and the release

MaxClockFrame == 6

InitFrame == InitWith({SessionA})

FrameOffsets == {-6, 16}

FrameDragSteps(p) ==
    \/ \E i \in 1..Len(app.proj[p].tabs_box) : TabDragBegin(p, (i - 1) * TabWidth)
    \/ \E offset_x \in FrameOffsets : gest.far = 0 /\ TabDragUpdate(p, offset_x)
    \/ TabDragEnd(p)

NextFrame ==
    \/ CanRead(MaxClockFrame) /\ Activate
    \/ CanRead(MaxClockFrame) /\ CanCreate /\ \E f \in Folders : FolderSelected(f)
    \/ CanRead(MaxClockFrame) /\ \E p \in Projects : activateProject(p)
    \/ \E p \in Projects : CanAdd(p, MaxTabs) /\ AddSubtabClicked(p)
    \/ \E p \in Projects : \E s \in Tabs(p) : CloseSubtabClicked(p, s)
    \/ CanRead(MaxClockFrame) /\ RemoveProjectClicked
    \/ SortClicked
    \/ \E p \in Projects : \E s \in Tabs(p) : \E title \in Titles :
           /\ PointerFree /\ app.notebook_page = p /\ app.proj[p].active_subtab = s
           /\ TerminalTitleChanged(p, s, title)
    \/ \E p \in Projects : FrameDragSteps(p)

SpecFrame == InitFrame /\ [][NextFrame]_vars

\* ---- SpecSort: the sort functions on three rows of any insert_order, name and last_used

SortRows == 1..3

SortNames == { "apple", "banana", "cherry", "Cherry" }

\* What a row can hold for the sort functions to read.
SortKeys ==
    [ insert_order : 0..2, name : SortNames, last_used : {10, 20, 30} ]

SortedApp(keys) ==
    [ NewApp EXCEPT
        !.projects = [i \in SortRows |-> i],
        !.sidebar = [i \in SortRows |-> i],
        !.proj = [i \in SortRows |->
                    [ NewProject(keys[i].name, "/w", keys[i].insert_order)
                        EXCEPT !.last_used = keys[i].last_used ]] ]

InitSort ==
    /\ phase = "running"
    /\ app \in { SortedApp(keys) : keys \in [SortRows -> SortKeys] }
    /\ now = StartTime
    /\ session = NoFile
    /\ legacy = NoFile
    /\ pending = {}
    /\ gest = NoGesture
    /\ h = [op |-> "none", saves |-> 0, did |-> NoGesture]

NextSort ==
    \/ SortClicked

SpecSort == InitSort /\ [][NextSort]_vars

\* ---- SpecLoad: the application starts on every kind of session file, with and without
\* the legacy files, and is closed and started again

MaxClockLoad == 6

InitLoad ==
    /\ phase = "off"
    /\ app = NewApp
    /\ now = StartTime
    /\ session \in {NoFile, Unreadable, InvalidJson, NotObject, NoProjects, SessionA}
    /\ legacy \in {NoFile, LegacyConf}
    /\ pending = {}
    /\ gest = NoGesture
    /\ h = [op |-> "none", saves |-> 0, did |-> NoGesture]

NextLoad ==
    \/ CanRead(MaxClockLoad) /\ Activate
    \/ CanRead(MaxClockLoad) /\ \E p \in Projects : activateProject(p)
    \/ CanRead(MaxClockLoad) /\ RemoveProjectClicked
    \/ WindowDestroy

SpecLoad == InitLoad /\ [][NextLoad]_vars

\* ---- SpecTabs: subtabs are restored, added, shown, closed and dragged in two projects
\* with saved subtabs; the window stays open and shows the first project

MaxStripTabs == 3

InitTabs == InitWith({SessionE})

NextTabs ==
    \/ CanRead(MaxClock) /\ Activate
    \/ \E p \in Projects : CanAdd(p, MaxStripTabs) /\ AddSubtabClicked(p)
    \/ \E p \in Projects : CanAdd(p, MaxStripTabs) /\ SidebarAddSubtabClicked(p)
    \/ \E p \in Projects : \E s \in Tabs(p) : SubtabButtonClicked(p, s)
    \/ \E p \in Projects : \E s \in Tabs(p) : CloseSubtabClicked(p, s)
    \/ \E p \in Projects : FrameDragSteps(p)

SpecTabs == InitTabs /\ [][NextTabs]_vars

\* ================================================================ the claims

\* No live subtab, so no terminal spawned, and not marked initialized.
Uninitialized(P) == ~P.initialized /\ P.subtabs = <<>> /\ DOMAIN P.sub = {}

\* The live subtabs of P are those of its list, each once.
LiveTabs(P) ==
    /\ { P.subtabs[i] : i \in 1..Len(P.subtabs) } = DOMAIN P.sub
    /\ Cardinality(DOMAIN P.sub) = Len(P.subtabs)

\* The names of the live subtabs of P, in the order of its list.
TabNames(P) == [i \in 1..Len(P.subtabs) |-> P.sub[P.subtabs[i]].name]

\* ---- C1

\* load_session has just returned, from a session file with projects.
JustLoaded == h.op = "activate" /\ session.kind = "json" /\ app.projects # <<>>

\* The project the file's active_project_index names, NULL when it names none.
RestoredProject == g_list_nth(app.projects, session.active_project_index)

\* C1 as stated: after load_session has loaded a session file with projects, every
\* project is uninitialized (no live subtab, no terminal spawned), the one whose
\* selection load restores included.
C1_LazyStartup ==
    JustLoaded => \A p \in Projects : Uninitialized(app.proj[p])

\* C1 amended: after load_session has loaded a session file with projects, every project
\* but the one whose selection load restores is uninitialized; the restored one has been
\* initialized by the selection (it has live subtabs and no descriptors left), and when
\* the file's active index names no project none is initialized.
C1_LazyStartupButRestored ==
    JustLoaded =>
        \A p \in Projects :
            IF p = RestoredProject
            THEN /\ app.proj[p].initialized
                 /\ app.proj[p].subtabs # <<>>
                 /\ app.proj[p].saved_subtabs = <<>>
                 /\ app.selected_row = p
            ELSE Uninitialized(app.proj[p])

\* C1's case: a file with a valid active index and another project with saved subtabs
\* has been loaded.
C1_Loaded ==
    /\ JustLoaded
    /\ RestoredProject # NULL
    /\ \E p \in Projects : p # RestoredProject /\ app.proj[p].saved_subtabs # <<>>

\* ---- C2

\* C2: at every handler boundary every project is initialized exactly when its list of
\* live subtabs is not empty, and an initialized project has no pending descriptors.
C2_MutualExclusivity ==
    \A p \in Projects :
        LET P == app.proj[p]
        IN /\ P.initialized <=> P.subtabs # <<>>
           /\ P.initialized => P.saved_subtabs = <<>>
           /\ LiveTabs(P)

\* C2's case: a reorder has just been committed in an initialized project while another
\* project is uninitialized with pending descriptors.
C2_BothKinds ==
    /\ h.op = "on_tab_drag_end" /\ h.saves = 1
    /\ \E p \in Projects : app.proj[p].initialized /\ Len(app.proj[p].subtabs) = 2
    /\ \E p \in Projects : ~app.proj[p].initialized /\ app.proj[p].saved_subtabs # <<>>

\* ---- C3

\* The application a fresh process builds, at the current time, from the file
\* save_session writes of the current application.
Reloaded == load_session(World(NewApp, now, save_session(Cur).session, {})).app

\* The i-th project of an AppState.
Nth(a, i) == a.proj[a.projects[i]]

PendingOnly(P) == ~P.initialized /\ P.saved_subtabs # <<>>

SameIdentity(P, Q) == Q.name = P.name /\ Q.path = P.path

SameDescriptors(P, Q) ==
    PendingOnly(P) =>
        /\ Q.saved_subtabs = P.saved_subtabs
        /\ Q.saved_active_subtab = P.saved_active_subtab

\* The place of the active project in the list, from 0; -1 when there is none.
ActiveIndex(a) == g_list_index(a.projects, a.active_project)

SameFrame(a, b) ==
    /\ Len(b.projects) = Len(a.projects)
    /\ b.sort_mode = a.sort_mode
    /\ ActiveIndex(b) = ActiveIndex(a)

\* C3 as stated: save_session then load_session into a fresh application gives the same
\* projects in the same order with the same name, path and last_used, the same sort mode
\* and active project index, and every project that was uninitialized with pending
\* descriptors has the same descriptors and the same active-subtab index.
C3_RoundTrip ==
    phase = "running" =>
        /\ SameFrame(app, Reloaded)
        /\ \A i \in 1..Len(app.projects) :
               /\ SameIdentity(Nth(app, i), Nth(Reloaded, i))
               /\ Nth(Reloaded, i).last_used = Nth(app, i).last_used
               /\ SameDescriptors(Nth(app, i), Nth(Reloaded, i))

\* The descriptors of P have become the live subtabs of Q.
Materialized(P, Q) ==
    /\ Q.initialized /\ Q.saved_subtabs = <<>>
    /\ TabNames(Q) = [i \in 1..Len(P.saved_subtabs) |-> P.saved_subtabs[i].name]
    /\ \A i \in 1..Len(Q.subtabs) :
           Q.sub[Q.subtabs[i]].wd = P.saved_subtabs[i].working_dir

\* C3 amended: the same, but for the active project, which load selects: its last_used
\* is the time of the load, and its pending descriptors, if it had any, come back as live
\* subtabs of the same names and working directories instead of descriptors.
C3_RoundTripButActive ==
    phase = "running" =>
        /\ SameFrame(app, Reloaded)
        /\ \A i \in 1..Len(app.projects) :
               LET P == Nth(app, i)
                   Q == Nth(Reloaded, i)
               IN /\ SameIdentity(P, Q)
                  /\ IF i = ActiveIndex(app) + 1
                     THEN /\ Q.last_used = now
                          /\ Q.last_used # P.last_used
                          /\ PendingOnly(P) => Materialized(P, Q)
                     ELSE /\ Q.last_used = P.last_used
                          /\ SameDescriptors(P, Q)

\* C3's case: the application, itself loaded from a file save_session wrote, has an
\* active project and another project that is uninitialized with pending descriptors.
C3_SavedAndLoaded ==
    /\ h.op = "activate" /\ session.kind = "json" /\ session \notin {SessionA, SessionB}
    /\ Len(app.projects) = 2
    /\ \E i \in 1..2 : i # ActiveIndex(app) + 1 /\ PendingOnly(Nth(app, i))
    /\ app.sort_mode # SORT_NONE

\* ---- C4

\* The handlers that add or remove a project, add or close a subtab, or change the sort
\* mode.
Mutators ==
    { "on_folder_selected", "on_remove_project_clicked", "on_add_subtab_clicked",
      "on_sidebar_add_subtab_clicked", "on_close_subtab_clicked",
      "on_terminal_child_exited", "on_sort_clicked" }

\* The handlers after which the file is the image of the application (after a removal the
\* handler goes on to select another project).
SavesLast == Mutators \ { "on_remove_project_clicked" }

\* A release that commits a reorder.
CommitsReorder == \E p \in Projects : TabDragEnd(p) /\ app.proj[p].drag_active

\* C4 as stated: adding or removing a project, adding a subtab (from the strip or from
\* the sidebar), closing a subtab, committing a reorder and changing the sort mode each
\* call save_session before the handler returns, and the file then has the mutation.
C4_PersistOnEveryMutation ==
    [][ /\ (h'.op \in Mutators \/ CommitsReorder) => h'.saves >= 1
        /\ (h'.op \in SavesLast \/ CommitsReorder) => session' = SessionJson(app') ]_vars

\* ---- C5

\* The projects of the list in creation order have increasing insert_order.
InsertOrderIncreasing(a) ==
    \A i, j \in 1..Len(a.projects) :
        i < j => Nth(a, i).insert_order < Nth(a, j).insert_order

\* C5 as stated: the insert_order values of the projects are pairwise distinct and
\* increase in creation order, and no handler changes the insert_order of a project.
C5_InsertOrderUnique ==
    [][ /\ InsertOrderIncreasing(app')
        /\ \A p \in Projects \cap DOMAIN app'.proj :
               phase = "running" /\ phase' = "running" =>
                   app'.proj[p].insert_order = app.proj[p].insert_order ]_vars

\* ---- C6

\* The close requests for the subtab of e that wait in the queue, e apart.
Rivals(q, e) == { x \in q : x # e /\ x.p = e.p /\ x.s = e.s }

\* The request e, dispatched, closes its subtab: that subtab and no other leaves the
\* project, and the session is saved once.
ClosesOnce(e) ==
    /\ e.p \in DOMAIN app'.proj
    /\ DOMAIN app'.proj[e.p].sub = DOMAIN app.proj[e.p].sub \ {e.s}
    /\ app'.proj[e.p].subtabs = g_list_remove(app.proj[e.p].subtabs, e.s)
    /\ Len(app'.proj[e.p].subtabs) = Len(app.proj[e.p].subtabs) - 1
    /\ h'.saves = 1
    /\ session' = SessionJson(app')

\* C6: of two close requests for the same subtab, a click and a child-exited in either
\* order, the one dispatched first removes the subtab once and saves once; the other one
\* is then a request for a closed subtab, and dispatching it changes nothing, saves
\* nothing and reads no freed subtab.
C6_IdempotentClose ==
    [][ \A e \in pending :
            Dispatch(e) =>
                IF e.stale
                THEN /\ app' = app /\ session' = session
                     /\ h'.saves = 0 /\ h'.op = "not delivered"
                ELSE /\ h'.op # "use after free"
                     /\ ClosesOnce(e)
                     /\ \A x \in Rivals(pending, e) :
                            [x EXCEPT !.stale = TRUE] \in pending' ]_vars

\* C6's case: the second of two requests for the same subtab has just been dispatched.
C6_SecondRequest ==
    /\ phase = "running"
    /\ h.op = "not delivered"

\* ---- C7

\* Uninitialized, with no live subtab, no pending descriptor and no active subtab.
Reverted(P) ==
    /\ Uninitialized(P)
    /\ P.saved_subtabs = <<>>
    /\ P.active_subtab = NULL

\* Initialized, with one live subtab named "Tab 1", which is the active one, and the
\* counter at 1.
OneDefaultTab(P) ==
    /\ P.initialized
    /\ Len(P.subtabs) = 1 /\ LiveTabs(P)
    /\ TabNames(P) = << "Tab 1" >>
    /\ P.active_subtab = P.subtabs[1]
    /\ P.subtab_counter = 1

\* C7: closing the only live subtab of a project, by a click or by the exit of its shell,
\* leaves the project uninitialized with no live subtab, no pending descriptor and no
\* active subtab; and activateProject on a project in that state creates exactly one
\* live subtab named "Tab 1", sets the counter to 1 and marks the project initialized.
C7_LastTabCloseReverts ==
    [][ \A p \in Projects :
            /\ Len(app.proj[p].subtabs) = 1 =>
                   \A s \in Tabs(p) :
                       CloseSubtabClicked(p, s) \/ TerminalChildExited(p, s)
                       => Reverted(app'.proj[p])
            /\ Reverted(app.proj[p]) /\ activateProject(p)
               => OneDefaultTab(app'.proj[p]) ]_vars

\* C7's case: the click on its close button has just closed the only subtab left of the
\* project shown, which had had two.
C7_LastTabClosed ==
    /\ h.op = "on_close_subtab_clicked"
    /\ app.notebook_page \in Projects
    /\ Reverted(app.proj[app.notebook_page])
    /\ app.proj[app.notebook_page].subtab_counter > 1

\* ---- C8

Styled(P) == \E s \in DOMAIN P.sub : P.sub[s].dragging

\* A pointer sequence on the strip of p whose displacement has not come to reach: its
\* moves leave the gesture out of DRAGGING, the strip and the styles as they are, and
\* its release leaves the subtab sequence as it is and saves nothing.
BelowIsClick(p, reach) ==
    /\ (\E offset_x \in Offsets : TabDragUpdate(p, offset_x)) =>
           /\ app'.proj[p].drag_active => gest'.far >= reach
           /\ gest'.far < reach =>
                  /\ app'.proj[p].tabs_box = app.proj[p].tabs_box
                  /\ ~Styled(app'.proj[p])
    /\ TabDragEnd(p) /\ gest.far < reach =>
           /\ app'.proj[p].subtabs = app.proj[p].subtabs
           /\ app'.proj[p].tabs_box = app.proj[p].tabs_box
           /\ h'.saves = 0
           /\ session' = session

\* C8 as stated: a gesture is in DRAGGING only when its horizontal displacement has
\* exceeded 6; a gesture whose displacement never exceeds 6 repositions no tab, applies
\* no dragging style, leaves the subtab sequence unchanged and saves nothing at release.
C8_ReorderThreshold ==
    [][ \A p \in Projects : BelowIsClick(p, DragThreshold + 1) ]_vars

\* C8 amended: the same with "has reached 6" for "has exceeded 6" and "never reaches 6"
\* for "never exceeds 6".
C8_ReorderThresholdReached ==
    [][ \A p \in Projects : BelowIsClick(p, DragThreshold) ]_vars

\* C8's case: a gesture whose displacement was 6 at most has been released after it had
\* moved the tab, and the release has saved.
C8_ReleasedAtThreshold ==
    /\ h.op = "on_tab_drag_end"
    /\ h.did.far = DragThreshold
    /\ h.did.moves = 1
    /\ h.saves = 1

\* ---- C9

\* The sequence with a and b exchanged.
Exchange(seq, a, b) ==
    [i \in 1..Len(seq) |-> IF seq[i] = a THEN b ELSE IF seq[i] = b THEN a ELSE seq[i]]

\* C9: the pointer moves of a gesture save nothing and leave the subtab sequence alone;
\* the release of a gesture that crossed the threshold makes the subtab sequence the
\* order of the strip, removes the dragging style and saves exactly once, the file then
\* holding that order; and when the gesture carried the tab across the midpoint of one
\* neighbour, once, the sequence after release is the one before with the dragged tab
\* and that neighbour exchanged.
C9_CommittedReorder ==
    [][ \A p \in Projects :
            /\ (\E offset_x \in Offsets : TabDragUpdate(p, offset_x)) =>
                   /\ h'.saves = 0 /\ session' = session
                   /\ app'.proj[p].subtabs = app.proj[p].subtabs
            /\ TabDragEnd(p) /\ app.proj[p].drag_active =>
                   /\ h'.saves = 1
                   /\ session' = SessionJson(app')
                   /\ app'.proj[p].subtabs = app.proj[p].tabs_box
                   /\ ~Styled(app'.proj[p])
                   /\ gest.moves = 1 /\ Cardinality(gest.over) = 1 =>
                          \E n \in gest.over :
                              /\ Abs(Place(app.proj[p].subtabs, n)
                                     - Place(app.proj[p].subtabs, app.proj[p].drag_tab)) = 1
                              /\ app'.proj[p].subtabs =
                                     Exchange(app.proj[p].subtabs, app.proj[p].drag_tab, n) ]_vars

\* C9's case: a gesture that carried its tab across the midpoint of one neighbour, once,
\* in a strip of three, has been released and the release has saved.
C9_Released ==
    /\ h.op = "on_tab_drag_end"
    /\ h.saves = 1
    /\ h.did.moves = 1 /\ Cardinality(h.did.over) = 1
    /\ \E p \in Projects : Len(app.proj[p].subtabs) = 3

\* ---- C10

\* C10: activateProject on an uninitialized project with k >= 1 pending descriptors
\* gives it exactly k live subtabs named as the descriptors, in their order, makes the
\* i-th one active when the saved active index i is within 0..k-1, leaves no pending
\* descriptor and marks the project initialized; on an uninitialized project with no
\* pending descriptor it gives exactly one live subtab, named "Tab 1".
C10_Materialization ==
    [][ \A p \in Projects :
            activateProject(p) /\ ~app.proj[p].initialized =>
                LET P == app.proj[p]
                    Q == app'.proj[p]
                    k == Len(P.saved_subtabs)
                    i == P.saved_active_subtab
                IN /\ Q.initialized /\ Q.saved_subtabs = <<>> /\ LiveTabs(Q)
                   /\ IF k >= 1
                      THEN /\ Len(Q.subtabs) = k
                           /\ TabNames(Q) = [j \in 1..k |-> P.saved_subtabs[j].name]
                           /\ (0 <= i /\ i < k) => Q.active_subtab = Q.subtabs[i + 1]
                      ELSE /\ Len(Q.subtabs) = 1
                           /\ TabNames(Q) = << "Tab 1" >> ]_vars

\* C10's case: the first selection ever made was that of a project with two pending
\* descriptors and a saved active index of 1, by activateProject.
C10_Materialized ==
    /\ h.op = "activateProject"
    /\ now = StartTime + 1
    /\ session = SessionB
    /\ LET P == app.proj[app.active_project]
       IN /\ P.name = "Web"
          /\ Len(P.subtabs) = 2
          /\ P.active_subtab = P.subtabs[2]

\* ---- C11

\* The projects that are there before and after the step, and whose last_used differs.
Restamped == { p \in Projects : p \in DOMAIN app'.proj
                                /\ app'.proj[p].last_used # app.proj[p].last_used }

\* The handlers that create a project, add or close a subtab, reorder the tabs, change a
\* title or the sort mode, or remove a project.
FrameHandlers ==
    { "on_folder_selected", "on_add_subtab_clicked", "on_close_subtab_clicked",
      "on_tab_drag_begin", "on_tab_drag_update", "on_tab_drag_end",
      "on_terminal_title_changed", "on_sort_clicked", "on_remove_project_clicked" }

\* C11 as stated: the last_used of a project changes only in activateProject of that
\* project; creating a project, adding or closing a subtab, reordering tabs, a title
\* change, a sort-mode change and the removal of another project leave the last_used of
\* every project that is there before and after unchanged.
C11_LastUsedOnlyOnActivation ==
    [][ /\ \A p \in Restamped : h'.op = "activateProject" /\ app'.active_project = p
        /\ h'.op \in FrameHandlers => Restamped = {} ]_vars

\* C11 amended: the last_used of a project changes only when that project is selected,
\* and becomes the time of the selection: in activateProject of that project, and in the
\* removal of the active project, which selects the first project that remains; a project
\* created with its terminal is selected and has the time of its creation as last_used.
\* Adding or closing a subtab, reordering tabs, a title change and a sort-mode change
\* leave every last_used unchanged, and so does the creation of a project for the
\* projects there were.
C11_LastUsedOnlyOnSelection ==
    [][ /\ \A p \in Restamped :
               /\ h'.op \in {"activateProject", "on_remove_project_clicked"}
               /\ app'.active_project = p /\ app'.selected_row = p
               /\ app'.proj[p].last_used = now /\ now' = now + 1
               /\ h'.op = "on_remove_project_clicked" => p = Head(app'.projects)
        /\ h'.op \in FrameHandlers \ {"on_remove_project_clicked"} => Restamped = {}
        /\ h'.op = "on_folder_selected" =>
               \A p \in DOMAIN app'.proj \ Projects : app'.proj[p].last_used = now ]_vars

\* C11's case: the active project has just been removed, and the project that remains
\* has the time of the removal as last_used and no longer the one it was loaded with.
C11_RemovedAnother ==
    /\ h.op = "on_remove_project_clicked"
    /\ Len(app.projects) = 1
    /\ app.proj[Head(app.projects)].last_used = now - 1
    /\ session.projects[1].last_used < now - 1

\* ---- C12

Without(seq, x) == SelectSeq(seq, LAMBDA y : y # x)

\* The first project that remains has been selected: it is as it was if it was
\* initialized, else it has its saved subtabs, or "Tab 1", as live subtabs.
SelectedAsItWas(P, Q) ==
    /\ Q.initialized /\ Q.saved_subtabs = <<>> /\ LiveTabs(Q)
    /\ IF P.initialized
       THEN Q.subtabs = P.subtabs /\ Q.sub = P.sub /\ Q.active_subtab = P.active_subtab
       ELSE TabNames(Q) = IF P.saved_subtabs = <<>> THEN << "Tab 1" >>
                          ELSE [i \in 1..Len(P.saved_subtabs) |-> P.saved_subtabs[i].name]

\* C13: on_remove_project_clicked with an active project takes that project, with its
\* live subtabs and pending descriptors, out of the collection; the other projects keep
\* their order, their name, path and insert_order, and all but the first of them are
\* unchanged altogether; the first one that remains becomes the active and selected
\* project, with the subtabs it had, or their descriptors made live; when none remains
\* there is no active project; and the session is saved once, the file holding the
\* remaining projects in their order.
C13_RemoveProject ==
    [][ RemoveProjectClicked /\ app.active_project # NULL =>
            LET p == app.active_project
                rest == Without(app.projects, p)
            IN /\ app'.projects = rest
               /\ DOMAIN app'.proj = Projects \ {p}
               /\ \A i \in 1..Len(rest) :
                      LET P == app.proj[rest[i]]
                          Q == app'.proj[rest[i]]
                      IN /\ Q.name = P.name /\ Q.path = P.path
                         /\ Q.insert_order = P.insert_order
                         /\ IF i = 1 THEN SelectedAsItWas(P, Q) ELSE Q = P
               /\ IF rest = <<>>
                  THEN app'.active_project = NULL
                  ELSE /\ app'.active_project = rest[1]
                       /\ app'.selected_row = rest[1]
                       /\ app'.notebook_page = rest[1]
               /\ h'.saves = 1
               /\ session'.kind = "json"
               /\ Len(session'.projects) = Len(rest)
               /\ \A i \in 1..Len(rest) :
                      /\ session'.projects[i].name = app.proj[rest[i]].name
                      /\ session'.projects[i].path = app.proj[rest[i]].path ]_vars

\* C13's case: the second of three loaded projects, the active one, has been removed;
\* the first has become the active one with its two saved subtabs live, and the third
\* still has its descriptor.
C13_RemovedSecondOfThree ==
    /\ h.op = "on_remove_project_clicked"
    /\ Len(app.projects) = 2
    /\ Nth(app, 1).name = "api" /\ Nth(app, 2).name = "doc"
    /\ app.active_project = app.projects[1]
    /\ TabNames(Nth(app, 1)) = << "Tab 1", "vim" >>
    /\ PendingOnly(Nth(app, 2))
    /\ Len(session.projects) = 2

\* ---- C14

\* The name of a sort mode in the file.
ModeName(m) == IF m = SORT_NONE THEN "none" ELSE IF m = SORT_ALPHA THEN "alpha" ELSE "mru"

\* C14: a click on the sort button takes the mode from none to alpha, from alpha to mru
\* and from mru to none, so that three clicks give the mode back; it saves once, and the
\* sort_mode of the file is then the name of the mode in memory; and it leaves the
\* collection, its order, and the name, insert_order and last_used of every project as
\* they were.
C14_SortModeSwitch ==
    [][ SortClicked =>
            /\ app.sort_mode \in {SORT_NONE, SORT_ALPHA, SORT_MRU}
            /\ app'.sort_mode = IF app.sort_mode = SORT_NONE THEN SORT_ALPHA
                                ELSE IF app.sort_mode = SORT_ALPHA THEN SORT_MRU
                                ELSE SORT_NONE
            /\ NextSortMode(NextSortMode(app'.sort_mode)) = app.sort_mode
            /\ h'.saves = 1
            /\ session'.kind = "json"
            /\ session'.sort_mode = ModeName(app'.sort_mode)
            /\ app'.projects = app.projects
            /\ DOMAIN app'.proj = Projects
            /\ \A p \in Projects :
                   /\ app'.proj[p].last_used = app.proj[p].last_used
                   /\ app'.proj[p].insert_order = app.proj[p].insert_order
                   /\ app'.proj[p].name = app.proj[p].name ]_vars

\* C14's case: a click has just switched the mode to alpha with three projects loaded,
\* and the sidebar shows them in another order than the collection has.
C14_SwitchedToAlpha ==
    /\ h.op = "on_sort_clicked"
    /\ app.sort_mode = SORT_ALPHA
    /\ session.sort_mode = "alpha"
    /\ Len(app.projects) = 3
    /\ app.sidebar # app.projects

\* ---- C15

\* The rows of the sidebar are the projects, each once.
ShowsEveryProject(a) ==
    /\ Len(a.sidebar) = Len(a.projects)
    /\ \A p \in DOMAIN a.proj : \E i \in 1..Len(a.sidebar) : a.sidebar[i] = p

\* The place of a name in the alphabet, whatever its case.
AlphabetPlace(name) ==
    CASE name \in {"apple"} -> 1
      [] name \in {"banana"} -> 2
      [] name \in {"cherry", "Cherry"} -> 3

\* The sidebar rows are in the order of the sort mode.
InModeOrder(a) ==
    \A i, j \in 1..Len(a.sidebar) :
        i < j =>
            LET P == a.proj[a.sidebar[i]]
                Q == a.proj[a.sidebar[j]]
            IN CASE a.sort_mode = SORT_NONE -> P.insert_order <= Q.insert_order
                 [] a.sort_mode = SORT_ALPHA -> AlphabetPlace(P.name) <= AlphabetPlace(Q.name)
                 [] a.sort_mode = SORT_MRU -> P.last_used >= Q.last_used

\* The rows of the example: insert_order 2, 0, 1, names banana, apple, cherry, last_used
\* 10, 30, 20.
Example(a) ==
    /\ a.proj[1].insert_order = 2 /\ a.proj[1].name = "banana" /\ a.proj[1].last_used = 10
    /\ a.proj[2].insert_order = 0 /\ a.proj[2].name = "apple" /\ a.proj[2].last_used = 30
    /\ a.proj[3].insert_order = 1 /\ a.proj[3].name = "cherry" /\ a.proj[3].last_used = 20

\* C15: once the rows have been sorted for a mode, every project has its row, and the
\* rows are in ascending insert_order in manual mode, in ascending order of their names
\* without regard to case in alphabetical mode, and in descending last_used in MRU mode;
\* the rows of the example come out as insert_order 0, 1, 2, as apple, banana, cherry, and
\* as last_used 30, 20, 10.
C15_SortDeterminism ==
    h.op = "on_sort_clicked" =>
        /\ ShowsEveryProject(app)
        /\ InModeOrder(app)
        /\ Example(app) =>
               app.sidebar = CASE app.sort_mode = SORT_NONE -> << 2, 3, 1 >>
                               [] app.sort_mode = SORT_ALPHA -> << 2, 1, 3 >>
                               [] app.sort_mode = SORT_MRU -> << 2, 3, 1 >>

\* C15's case: the rows of the example have been sorted by name.
C15_ExampleByName ==
    /\ h.op = "on_sort_clicked"
    /\ Example(app)
    /\ app.sort_mode = SORT_ALPHA
    /\ app.sidebar = << 2, 1, 3 >>

\* ---- C16

\* The kinds of session file that exist and cannot be parsed.
Unparsable == { "unreadable", "invalid_json", "not_object", "no_projects" }

\* C16: when the session file exists and cannot be parsed (it cannot be read, is not
\* JSON, has a root that is no object, or has no "projects"), the application starts
\* with no project at all and no active project, and runs; the legacy files, if any, are
\* not migrated: nothing is saved and the session file is left as it is.
C16_CorruptSession ==
    [][ Activate /\ session.kind \in Unparsable =>
            /\ phase' = "running"
            /\ app'.projects = <<>>
            /\ DOMAIN app'.proj = {}
            /\ app'.sidebar = <<>>
            /\ app'.active_project = NULL
            /\ h'.saves = 0
            /\ session' = session ]_vars

\* C16's case: the application has started on a session file without "projects", whose
\* sort mode it did read, while legacy files with projects were there.
C16_StartedOnCorrupt ==
    /\ h.op = "activate"
    /\ session.kind = "no_projects"
    /\ legacy = LegacyConf
    /\ app.projects = <<>>
    /\ app.sort_mode = SORT_ALPHA

\* ---- C17

\* The lines of projects.conf that are not empty.
NonEmptyLines == SelectSeq(legacy.lines, LAMBDA l : ~(l.before = "" /\ l.after = NoPipe))

\* The number a timestamp prefix stands for.
Stamp(str) == IF str = "1" THEN 1 ELSE IF str = "2" THEN 2 ELSE 0

\* The project made from a line: uninitialized, without descriptors, with the path of
\* the line and the last_used of its timestamp prefix, 0 when it has none.
FromLine(Q, l) ==
    /\ Uninitialized(Q) /\ Q.saved_subtabs = <<>>
    /\ l.after # NoPipe /\ l.before # "" => Q.path = l.after /\ Q.last_used = Stamp(l.before)
    /\ l.after = NoPipe => Q.path = l.before /\ Q.last_used = 0
    /\ l.before = "" => Q.last_used = 0

\* C17: when there is no session file and there are legacy files, the start of the
\* application makes one project of each line that is not empty, in the order of the
\* lines, takes the sort mode of sort.conf, and saves once, so that a session file with
\* those projects is there when load_session returns; a session file that is there stays
\* there, and a start with a session file takes its projects from that file and saves
\* nothing.
C17_LegacyMigrationOnce ==
    [][ /\ Activate /\ session.kind = "absent" /\ legacy.kind # "absent" =>
               /\ Len(app'.projects) = Len(NonEmptyLines)
               /\ \A i \in 1..Len(NonEmptyLines) : FromLine(Nth(app', i), NonEmptyLines[i])
               /\ legacy.sort \in {"alpha", "mru"} => ModeName(app'.sort_mode) = legacy.sort
               /\ h'.saves = 1
               /\ session'.kind = "json"
               /\ Len(session'.projects) = Len(NonEmptyLines)
               /\ \A i \in 1..Len(NonEmptyLines) :
                      session'.projects[i].path = Nth(app', i).path
        /\ session.kind # "absent" => session'.kind # "absent"
        /\ Activate /\ session.kind = "json" =>
               /\ h'.saves = 0
               /\ Len(app'.projects) = Len(session.projects)
               /\ \A i \in 1..Len(session.projects) :
                      /\ Nth(app', i).name = session.projects[i].name
                      /\ Nth(app', i).path = session.projects[i].path ]_vars

\* C17's case: the legacy files were migrated, the last of the three projects removed and
\* the application closed; it has now started again, with the two projects of the session
\* file, the first one active and the second with the last_used of its unstamped line.
C17_StartedAfterMigration ==
    /\ h.op = "activate"
    /\ legacy = LegacyConf
    /\ session.kind = "json"
    /\ Len(app.projects) = 2
    /\ app.active_project = app.projects[1]
    /\ Nth(app, 2).last_used = 0
    /\ app.sort_mode = SORT_MRU

\* ---- C18

\* The project has one active subtab, a live one of its sequence, when it has live
\* subtabs, and none when it has none.
OneActiveSubtab(P) ==
    /\ P.subtabs # <<>> =>
           /\ P.active_subtab # NULL
           /\ P.active_subtab \in DOMAIN P.sub
           /\ Cardinality({ i \in 1..Len(P.subtabs) : P.subtabs[i] = P.active_subtab }) = 1
    /\ P.subtabs = <<>> => P.active_subtab = NULL

\* C18: when no handler is running, every project with a live subtab has one active
\* subtab, which is one of its live subtabs, and every project without live subtabs has
\* no active subtab; so after subtabs were restored with a saved active index past the
\* end, added, shown, closed and dragged to other places.
C18_OneActiveSubtab ==
    \A p \in DOMAIN app.proj : OneActiveSubtab(app.proj[p])

\* C18's case: the two subtabs of the first project were restored with the saved active
\* index 5, a third was added, "Tab 2" closed, and "Tab 3" dragged in front of "vim".
C18_RestoredAddedClosedDragged ==
    /\ h.op = "on_tab_drag_end"
    /\ Len(app.projects) = 2
    /\ TabNames(Nth(app, 1)) = << "Tab 3", "vim" >>
    /\ Nth(app, 1).subtab_counter = 3
    /\ Nth(app, 1).active_subtab = Nth(app, 1).subtabs[1]

\* ---- C19

\* What an add of a subtab makes of project P: Q.
Added(P, Q) ==
    IF ~P.initialized
    THEN /\ Q.initialized
         /\ Q.subtab_counter = 1
         /\ Q.saved_subtabs = <<>>
         /\ Len(Q.subtabs) = 1
         /\ DOMAIN Q.sub = { Q.subtabs[1] }
         /\ Q.sub[Q.subtabs[1]].name = "Tab 1"
    ELSE /\ Q.initialized
         /\ Q.subtab_counter = P.subtab_counter + 1
         /\ Len(Q.subtabs) = Len(P.subtabs) + 1
         /\ SubSeq(Q.subtabs, 1, Len(P.subtabs)) = P.subtabs
         /\ LET s == Q.subtabs[Len(Q.subtabs)]
            IN /\ s \notin DOMAIN P.sub
               /\ DOMAIN Q.sub = DOMAIN P.sub \cup {s}
               /\ Q.sub[s].name = "Tab " \o ToString(Q.subtab_counter)
               /\ Q.active_subtab = s

\* C19: the "+" of the tab strip and the "+" of a sidebar row give a project that is not
\* initialized, whatever saved subtabs it holds, one live subtab "Tab 1", no saved
\* subtabs, the counter 1 and the initialized mark; to an initialized project they add
\* one subtab at the end, named "Tab n" for the counter n, which is one more than before,
\* and that subtab is the active one.
C19_AddSubtab ==
    [][ \A p \in DOMAIN app.proj :
            /\ h'.op \in {"on_add_subtab_clicked", "on_sidebar_add_subtab_clicked"}
            /\ AddSubtabClicked(p) \/ SidebarAddSubtabClicked(p)
            => Added(app.proj[p], app'.proj[p]) ]_vars

\* C19's case: the second project, loaded with the saved subtab "vim" that the session
\* file still shows, has got its first subtab from the "+" of its sidebar row.
C19_AddedToPending ==
    /\ h.op = "on_sidebar_add_subtab_clicked"
    /\ session = SessionE
    /\ TabNames(Nth(app, 2)) = << "Tab 1" >>
    /\ Nth(app, 2).subtab_counter = 1
    /\ Nth(app, 2).saved_subtabs = <<>>

\* ---- C20

\* Where project p stands in the sequence, counted from 0.
PlaceIn(seq, p) == CHOOSE i \in 0..(Len(seq) - 1) : seq[i + 1] = p

\* The session file holds the projects of application a in the order of its collection,
\* and the index of its active project in that order.
SavedInManualOrder(file, a) ==
    /\ file.kind = "json"
    /\ Len(file.projects) = Len(a.projects)
    /\ \A i \in 1..Len(a.projects) :
           /\ file.projects[i].name = Nth(a, i).name
           /\ file.projects[i].path = Nth(a, i).path
    /\ a.active_project # NULL /\ a.projects # <<>> =>
           file.active_project_index = PlaceIn(a.projects, a.active_project)

\* C20: in every sort mode, a handler that saves leaves a session file with the projects
\* in the order of the collection and with the active project's index in the collection,
\* whatever the order of the sidebar rows; the save of the closing window writes the
\* collection as it was.
C20_SaveUsesManualOrder ==
    [][ h'.saves > 0 =>
            IF phase' = "running" THEN SavedInManualOrder(session', app')
            ELSE SavedInManualOrder(session', app) ]_vars

\* C20's case: the sort button has put the three rows in another order than the
\* collection's, with the active project at another place, and saved.
C20_SavedWhileSorted ==
    /\ h.op = "on_sort_clicked"
    /\ Len(app.projects) = 3
    /\ app.active_project # NULL
    /\ PlaceIn(app.sidebar, app.active_project) # PlaceIn(app.projects, app.active_project)
    /\ session.active_project_index = PlaceIn(app.projects, app.active_project)
    /\ \E i \in 1..3 : session.projects[i].name # app.proj[app.sidebar[i]].name

\* ---- C21

\* The press point lies on the close control of a tab of the strip, or on no tab.
OnCloseControl(strip, x) ==
    /\ x >= 0 /\ x < Len(strip) * TabWidth
    /\ x % TabWidth >= CloseFrom
OnNoTab(strip, x) == x < 0 \/ x >= Len(strip) * TabWidth

\* No gesture is armed or dragging: no strip has a drag tab or the drag-active flag, and
\* no tab has the dragging style.
AllIdle(a) ==
    \A p \in DOMAIN a.proj :
        /\ a.proj[p].drag_tab = NULL
        /\ ~a.proj[p].drag_active
        /\ \A s \in DOMAIN a.proj[p].sub : ~a.proj[p].sub[s].dragging

\* C21: a press on the close control of a tab, or on no tab, is denied and leaves every
\* strip idle; the moves and the release of a denied gesture change nothing of the
\* application (no tab is moved, none gets the dragging style, no subtab sequence
\* changes) and nothing is saved.
C21_DeniedGesture ==
    [][ /\ \A p \in DOMAIN app.proj : \A x \in PressPoints(p) :
               /\ OnCloseControl(app.proj[p].tabs_box, x) \/ OnNoTab(app.proj[p].tabs_box, x)
               /\ TabPress(p, x)
               => /\ gest'.seq = Denied(p)
                  /\ app' = app /\ AllIdle(app')
                  /\ h'.saves = 0 /\ session' = session
        /\ gest.seq < 0 =>
               /\ app' = app /\ AllIdle(app')
               /\ h'.saves = 0 /\ session' = session ]_vars

\* C21's case: a gesture that was denied at the press has moved 16 units and was released.
C21_DeniedMovedReleased ==
    /\ h.op = "on_tab_drag_end"
    /\ h.did.seq < 0
    /\ h.did.far = 16
    /\ gest = NoGesture

\* ---- C22

\* The state of the gesture of a strip, read from its "drag-tab" and "drag-active".
DragState(P) ==
    IF P.drag_tab = NULL THEN (IF P.drag_active THEN "NONE" ELSE "IDLE")
    ELSE IF P.drag_active THEN "DRAGGING" ELSE "ARMED"

\* The steps of the state machine.
DragArrows ==
    { <<"IDLE", "IDLE">>, <<"IDLE", "ARMED">>, <<"ARMED", "ARMED">>, <<"ARMED", "DRAGGING">>,
      <<"ARMED", "IDLE">>, <<"DRAGGING", "DRAGGING">>, <<"DRAGGING", "IDLE">> }

\* C22: the gesture of a strip goes from IDLE to ARMED, by a press only, from ARMED to
\* DRAGGING, by a move only, and from ARMED or DRAGGING to IDLE, by the release only; a
\* move in DRAGGING stays in DRAGGING whatever its offset; the release ends in IDLE with
\* the drag tab and the drag-active flag cleared; the release from DRAGGING makes the
\* subtab sequence the order of the strip and saves once, also when no tab has moved, and
\* the release from ARMED saves nothing.
C22_DragStateMachine ==
    [][ \A p \in Projects \cap DOMAIN app'.proj :
            LET from == DragState(app.proj[p])
                to == DragState(app'.proj[p])
            IN /\ <<from, to>> \in DragArrows
               /\ from = "IDLE" /\ to = "ARMED" => h'.op = "on_tab_drag_begin"
               /\ from = "ARMED" /\ to = "DRAGGING" => h'.op = "on_tab_drag_update"
               /\ from # "IDLE" /\ to = "IDLE" => h'.op = "on_tab_drag_end"
               /\ gest.seq = p /\ h'.op = "on_tab_drag_end" =>
                      /\ to = "IDLE"
                      /\ app'.proj[p].drag_tab = NULL /\ ~app'.proj[p].drag_active
                      /\ from = "DRAGGING" =>
                             /\ h'.saves = 1
                             /\ app'.proj[p].subtabs = app.proj[p].tabs_box
                             /\ session' = SessionJson(app')
                      /\ from = "ARMED" => h'.saves = 0 /\ session' = session ]_vars

\* C22's case: a gesture that went to DRAGGING without moving a tab has been released,
\* and the release has saved.
C22_ReleasedUnmoved ==
    /\ h.op = "on_tab_drag_end"
    /\ h.did.far >= DragThreshold
    /\ h.did.moves = 0
    /\ h.saves = 1
    /\ \A p \in Projects : DragState(app.proj[p]) = "IDLE"

\* ---- C23

\* The first place, in strip order, of a tab other than the dragged one whose midpoint
\* lies between the dragged tab's midpoint and the pointer; 0 when there is none.
FirstCrossed(strip, dragged, x) ==
    LET crossed == { i \in 1..Len(strip) :
                       /\ strip[i] # dragged
                       /\ \/ Mid(Place(strip, dragged)) > Mid(i) /\ x < Mid(i)
                          \/ Mid(Place(strip, dragged)) < Mid(i) /\ x > Mid(i) }
    IN IF crossed = {} THEN 0 ELSE CHOOSE i \in crossed : \A k \in crossed : i <= k

\* The move has put the dragged tab next to the first crossed tab: just before it when
\* moving left, just after it when moving right, the other tabs staying in their order.
PlacedNextToFirstCrossed(before, after, dragged, x) ==
    LET i == FirstCrossed(before, dragged, x)
        n == before[i]
    IN /\ i # 0
       /\ g_list_remove(after, dragged) = g_list_remove(before, dragged)
       /\ IF i < Place(before, dragged)
          THEN Place(after, dragged) = Place(after, n) - 1
          ELSE Place(after, dragged) = Place(after, n) + 1

\* The place of the dragged tab has changed by one.
OnePlace(before, after, dragged) ==
    Abs(Place(after, dragged) - Place(before, dragged)) = 1

\* C23: a pointer move of a gesture that is DRAGGING after it either leaves the strip as
\* it is or puts the dragged tab next to the first tab, in strip order, whose midpoint
\* was crossed, and then the place of the dragged tab has changed by exactly one.
C23_OneSwapPerMove ==
    [][ \A p \in Projects : \A offset_x \in Offsets :
            TabDragUpdate(p, offset_x) /\ app'.proj[p].drag_active =>
                LET before == app.proj[p].tabs_box
                    after == app'.proj[p].tabs_box
                    dragged == app.proj[p].drag_tab
                IN \/ after = before
                   \/ /\ PlacedNextToFirstCrossed(before, after, dragged,
                                                  app.proj[p].drag_start_x + offset_x)
                      /\ OnePlace(before, after, dragged) ]_vars

\* ---- C24

\* The live subtabs that application a and application b both have keep their names.
SameNames(a, b) ==
    \A p \in DOMAIN a.proj \cap DOMAIN b.proj :
        \A s \in DOMAIN a.proj[p].sub \cap DOMAIN b.proj[p].sub :
            b.proj[p].sub[s].name = a.proj[p].sub[s].name

\* C24: a title report with a title that is not empty makes that title the name of the
\* subtab of the reporting terminal and changes nothing else of the application; a
\* report with an empty title changes nothing; and no other handler changes the name of
\* a live subtab.
C24_TitlePropagation ==
    [][ /\ h'.op = "on_terminal_title_changed" =>
               \A p \in Projects : \A s \in Tabs(p) : \A title \in Titles :
                   TerminalTitleChanged(p, s, title) =>
                       /\ title # "" => app' = [app EXCEPT !.proj[p].sub[s].name = title]
                       /\ title = "" => app' = app
        /\ h'.op # "on_terminal_title_changed" => SameNames(app, app') ]_vars

\* C24's case: the terminal of the only subtab of project "api", created as "Tab 1", has
\* reported the title "vim".
C24_Renamed ==
    /\ h.op = "on_terminal_title_changed"
    /\ \E p \in Projects :
           /\ app.proj[p].name = "api"
           /\ app.proj[p].subtab_counter = 1
           /\ TabNames(app.proj[p]) = << "vim" >>

\* ---- C25

\* The names of saved subtabs.
SavedNames(saved) == [i \in 1..Len(saved) |-> saved[i].name]

\* Project Q has live subtabs of these names in this order, the one at index i, counted
\* from 0, being the active one.
LiveAs(Q, names, i) ==
    /\ TabNames(Q) = names
    /\ Q.active_subtab = Q.subtabs[i + 1]

\* C25: a save writes, for every project with live subtabs, their names in order and the
\* index of the active one; a start of the application gives the project the file names
\* as active these subtabs live, with the subtab at the saved index active, and keeps
\* them as saved subtabs with that index for every other project; and selecting a
\* project that holds saved subtabs makes them live, in order, with the subtab at the
\* saved index active.
C25_RestoreInitialized ==
    [][ /\ h'.op = "on_window_destroy" =>
               /\ Len(session'.projects) = Len(app.projects)
               /\ \A i \in 1..Len(app.projects) :
                      Nth(app, i).initialized /\ Nth(app, i).subtabs # <<>> =>
                          LiveAs(Nth(app, i), SavedNames(session'.projects[i].subtabs),
                                 session'.projects[i].active_subtab_index)
        /\ h'.op = "activate" /\ session.kind = "json" =>
               \A i \in 1..Len(session.projects) :
                   LET F == session.projects[i]
                       Q == Nth(app', i)
                   IN F.subtabs # <<>> /\ F.active_subtab_index < Len(F.subtabs) =>
                          IF Q.initialized
                          THEN LiveAs(Q, SavedNames(F.subtabs), F.active_subtab_index)
                          ELSE /\ Q.saved_subtabs = F.subtabs
                               /\ Q.saved_active_subtab = F.active_subtab_index
        /\ h'.op = "activateProject" =>
               \A p \in Projects :
                   LET P == app.proj[p]
                   IN /\ activateProject(p)
                      /\ ~P.initialized /\ P.saved_subtabs # <<>>
                      /\ P.saved_active_subtab < Len(P.saved_subtabs)
                      => LiveAs(app'.proj[p], SavedNames(P.saved_subtabs),
                                P.saved_active_subtab) ]_vars

\* C25's case: the second project was saved with the three live subtabs "Tab 1", "vim"
\* and "Tab 3", the first of them active, while the first project was the active one;
\* the application has started on that file and the second project has been selected.
C25_RestoredThree ==
    /\ h.op = "activateProject"
    /\ session.kind = "json"
    /\ session.active_project_index = 0
    /\ SavedNames(session.projects[2].subtabs) = << "Tab 1", "vim", "Tab 3" >>
    /\ session.projects[2].active_subtab_index = 0
    /\ app.active_project = app.projects[2]
    /\ LiveAs(Nth(app, 2), << "Tab 1", "vim", "Tab 3" >>, 0)

\* ---- C26

\* C26: a handler that runs while session.json cannot be written ends with the
\* application as it ends with when the file can be written, and the application goes on
\* (or ends, for the closing window) as it does then; and a handler whose save is written
\* leaves the file holding the whole state of the application at the save, whatever
\* writes failed earlier: the state it ends with for the handlers that save last, the
\* state before the cleanup for the closing window.
C26_SaveFailureTolerated ==
    [][ /\ \A f \in Folders : FolderSelectedWriteFails(f) =>
               /\ phase' = "running"
               /\ \E pick \in 0..Len(app.sidebar) :
                      app' = on_folder_selected([Cur EXCEPT !.pick = pick], f).app
        /\ \A p \in Projects : \A s \in Tabs(p) : CloseSubtabClickedWriteFails(p, s) =>
               /\ phase' = "running"
               /\ app' = on_close_subtab_clicked(Cur, p, s).app
        /\ RemoveProjectClickedWriteFails =>
               /\ phase' = "running"
               /\ app' = on_remove_project_clicked(Cur).app
        /\ SortClickedWriteFails =>
               /\ phase' = "running"
               /\ app' = on_sort_clicked(Cur).app
        /\ WindowDestroyWriteFails => phase' = "off" /\ app' = NewApp
        /\ (\E f \in Folders : FolderSelected(f)) => session' = SessionJson(app')
        /\ (\E p \in Projects : \E s \in Tabs(p) : CloseSubtabClicked(p, s)) =>
               session' = SessionJson(app')
        /\ SortClicked => session' = SessionJson(app')
        /\ WindowDestroy => session' = SessionJson(app) ]_vars

\* C26's case: the sort button was clicked while the file could not be written: the
\* application shows the next sort mode and a subtab closed before, of which the file
\* knows nothing.
C26_SortedUnsaved ==
    /\ h.op = "on_sort_clicked"
    /\ h.saves = 1
    /\ phase = "running"
    /\ session = SessionA
    /\ app.sort_mode = SORT_NONE
    /\ Len(app.projects) = 2
    /\ TabNames(Nth(app, 2)) = << "Tab 1" >>

\* ---- C27

\* C27: the remove button with no active project changes nothing: the projects, their
\* subtabs, the sort mode and everything else of the application stay as they are, the
\* session file stays as it is, nothing is saved and the clock is not read.
C27_RemoveWithoutActive ==
    [][ RemoveProjectClicked /\ app.active_project = NULL =>
            /\ app' = app
            /\ session' = session
            /\ h'.saves = 0
            /\ now' = now
            /\ phase' = "running" ]_vars

\* C27's case: the remove button has been clicked with no active project, after the last
\* project had been removed and the session saved without projects.
C27_RemovedNothing ==
    /\ h.op = "on_remove_project_clicked"
    /\ h.saves = 0
    /\ app.active_project = NULL
    /\ session.kind = "json"
    /\ session.projects = <<>>

\* ---- C28

\* C28: in manual sort mode the sidebar shows the projects in the order of the
\* collection, and no two projects have the same insert_order.
C28_ManualOrderIsCollectionOrder ==
    phase = "running" /\ app.sort_mode = SORT_NONE =>
        /\ app.sidebar = app.projects
        /\ \A p, q \in Projects : p # q => app.proj[p].insert_order # app.proj[q].insert_order

\* ---- C29

\* The sidebar rows are in descending order of last_used.
MruOrder(a) ==
    \A i, j \in 1..Len(a.sidebar) :
        i < j => a.proj[a.sidebar[i]].last_used >= a.proj[a.sidebar[j]].last_used

C30_ActiveProjectIsMember ==
    /\ app.active_project = NULL <=> app.projects = <<>>
    /\ app.active_project # NULL =>
           /\ app.active_project \in DOMAIN app.proj
           /\ \E i \in 1..Len(app.projects) : app.projects[i] = app.active_project

\* C30's case: the application has started on a session of two projects whose saved
\* active index is 7: no row is selected and the project created last is the active one.
C30_LoadedOutOfRange ==
    /\ h.op = "activate"
    /\ session = SessionB
    /\ Len(app.projects) = 2
    /\ app.selected_row = NULL
    /\ app.active_project = app.projects[2]

\* ---- C31

\* C31: when no handler is running, the active project, if there is one, is the project
\* of the selected sidebar row.
C31_ActiveIsSelected ==
    phase = "running" /\ app.active_project # NULL =>
        app.selected_row = app.active_project

\* ---- C32

\* C32: while a pointer sequence on a strip is armed or dragging, the tab recorded as the
\* dragged tab is a live subtab of the project and a child of its strip, so every
\* pointer move and the release find it there.
C32_DraggedTabLive ==
    \A p \in Projects :
        phase = "running" /\ gest.seq = p =>
            /\ app.proj[p].drag_tab \in DOMAIN app.proj[p].sub
            /\ \E i \in 1..Len(app.proj[p].tabs_box) :
                   app.proj[p].tabs_box[i] = app.proj[p].drag_tab

\* ---- C33

\* Sequence b holds the elements of sequence a, each once, in some order.
Permutation(a, b) ==
    /\ Len(a) = Len(b)
    /\ \A i \in 1..Len(a) : Cardinality({ j \in 1..Len(b) : b[j] = a[i] }) = 1

\* The subtab s of Q is the subtab s of P, whatever its dragging style.
SameSubTab(P, Q, s) == [Q.sub[s] EXCEPT !.dragging = FALSE] = [P.sub[s] EXCEPT !.dragging = FALSE]

\* C33: the press, the moves and the release of a gesture on the strip of a project
\* change nothing but the order of that project's strip and, at the release of a drag,
\* the order of its subtab sequence: the live subtabs, their names, the active subtab,
\* the initialized flag, the counter, every other project and the rest of the
\* application are as before, and both orders hold the same subtabs as before.
C33_ReorderIsPermutation ==
    [][ \A p \in Projects :
            /\ h'.op \in {"on_tab_drag_begin", "on_tab_drag_update", "on_tab_drag_end"}
            /\ gest.seq = p \/ gest'.seq = p
            => LET P == app.proj[p]
                   Q == app'.proj[p]
               IN /\ [app' EXCEPT !.proj = app.proj] = app
                  /\ DOMAIN app'.proj = DOMAIN app.proj
                  /\ \A q \in Projects \ {p} : app'.proj[q] = app.proj[q]
                  /\ DOMAIN Q.sub = DOMAIN P.sub
                  /\ \A s \in DOMAIN P.sub : SameSubTab(P, Q, s)
                  /\ Q.active_subtab = P.active_subtab
                  /\ Q.initialized = P.initialized
                  /\ Q.subtab_counter = P.subtab_counter
                  /\ Q.saved_subtabs = P.saved_subtabs
                  /\ Permutation(P.tabs_box, Q.tabs_box)
                  /\ Permutation(P.subtabs, Q.subtabs)
                  /\ h'.op # "on_tab_drag_end" => Q.subtabs = P.subtabs ]_vars

\* C33's case: in an application of two projects a drag that moved a tab of a strip of
\* three has been released and saved; the subtab sequence has the new order and the
\* active subtab is its third.
C33_DraggedInactiveTab ==
    /\ h.op = "on_tab_drag_end"
    /\ h.did.moves = 1
    /\ h.saves = 1
    /\ Len(app.projects) = 2
    /\ \E p \in Projects :
           /\ Len(app.proj[p].subtabs) = 3
           /\ app.proj[p].active_subtab = app.proj[p].subtabs[3]
           /\ TabNames(app.proj[p]) # << "vim", "Tab 2", "Tab 3" >>

\* ---- C34

\* No strip of the application is being dragged.
NoneDragging(a) == \A p \in DOMAIN a.proj : ~a.proj[p].drag_active

\* The names of the tabs of the strip of P, from left to right.
StripNames(P) == [i \in 1..Len(P.tabs_box) |-> P.sub[P.tabs_box[i]].name]

\* C34, the state: when no handler is running, the subtab sequence of every project
\* whose strip is not being dragged is the sequence of the tabs of its strip.
C34_SequenceIsStrip ==
    \A p \in Projects : ~app.proj[p].drag_active => app.proj[p].subtabs = app.proj[p].tabs_box

\* C34: the subtab sequence of a project whose strip is not being dragged is the
\* left-to-right sequence of its strip after subtabs were created, closed and dragged;
\* so a close of the active subtab that leaves others shows the tab that stood right of
\* it in the strip, else the one left of it, and a save made while nothing is dragged
\* writes the subtabs of every initialized project in the order of its strip.
C34_ModelOrderMirrorsStrip ==
    [][ /\ C34_SequenceIsStrip'
        /\ \A p \in Projects : \A s \in Tabs(p) :
               /\ h'.op \in {"on_close_subtab_clicked", "on_terminal_child_exited"}
               /\ ~app.proj[p].drag_active
               /\ app.proj[p].active_subtab = s
               /\ Len(app.proj[p].tabs_box) > 1
               /\ s \notin DOMAIN app'.proj[p].sub
               => app'.proj[p].active_subtab = AdjacentSubtab(app.proj[p].tabs_box, s)
        /\ h'.saves > 0 /\ phase' = "running" /\ NoneDragging(app') =>
               /\ Len(session'.projects) = Len(app'.projects)
               /\ \A i \in 1..Len(app'.projects) :
                      Nth(app', i).initialized =>
                          SavedNames(session'.projects[i].subtabs) = StripNames(Nth(app', i))
      ]_vars

\* C34's case: the strip of the first project was dragged to another order and its
\* active subtab, the middle one, then closed: the tab right of it is shown, and the
\* file holds the two tabs left as the strip shows them.
C34_ClosedAfterDrag ==
    /\ h.op = "on_close_subtab_clicked"
    /\ h.saves = 1
    /\ Len(app.projects) = 2
    /\ Nth(app, 1).tabs_box = Nth(app, 1).subtabs
    /\ StripNames(Nth(app, 1)) = << "Tab 3", "vim" >>
    /\ Nth(app, 1).active_subtab = Nth(app, 1).tabs_box[2]
    /\ SavedNames(session.projects[1].subtabs) = << "Tab 3", "vim" >>

\* ---- C35

\* C35: a save made while the terminal of a live subtab has not reported a current
\* directory writes for that subtab the working directory it was created with, which
\* for a restored subtab is the working_dir of its descriptor.
C35_WorkingDirSurvives ==
    [][ h'.saves > 0 =>
            LET a == IF phase' = "running" THEN app' ELSE app
            IN \A i \in 1..Len(a.projects) :
                   LET P == a.proj[a.projects[i]]
                   IN P.initialized =>
                          \A j \in 1..Len(P.subtabs) :
                              P.sub[P.subtabs[j]].cwd = NoDir =>
                                  session'.projects[i].subtabs[j].working_dir
                                      = P.sub[P.subtabs[j]].wd ]_vars

\* ---- C36

\* C36: the subtab an add button creates in an initialized project has a name that no
\* other live subtab of the project has.
C36_DefaultNamesDistinct ==
    [][ \A p \in Projects :
            /\ h'.op \in {"on_add_subtab_clicked", "on_sidebar_add_subtab_clicked"}
            /\ app.proj[p].initialized
            => \A n \in DOMAIN app'.proj[p].sub \ DOMAIN app.proj[p].sub :
                   \A s \in DOMAIN app.proj[p].sub :
                       app'.proj[p].sub[n].name # app'.proj[p].sub[s].name ]_vars

\* ---- C37

\* C37: when the window is destroyed the session is saved once, before anything is
\* freed: the file then holds the serialization of the application as it was when the
\* window closed, with the subtabs added, the project and the subtabs selected and the
\* last_used values set since the save before.
C37_FinalStatePersisted ==
    [][ h'.op = "on_window_destroy" =>
            /\ h'.saves = 1
            /\ session' = SessionJson(app)
            /\ Len(session'.projects) = Len(app.projects)
            /\ app.active_project # NULL =>
                   app.projects[session'.active_project_index + 1] = app.active_project
            /\ \A i \in 1..Len(app.projects) :
                   LET P == Nth(app, i)
                       o == session'.projects[i]
                   IN /\ o.last_used = P.last_used
                      /\ P.initialized =>
                             /\ SavedNames(o.subtabs) = TabNames(P)
                             /\ P.subtabs[o.active_subtab_index + 1] = P.active_subtab
      ]_vars

\* C37's case: since the start on a session whose active project was the second, the
\* first project was selected, a subtab added to it and its first subtab shown, none of
\* which saves; the window was then closed, and the file holds all of it.
C37_ClosedWithUnsavedChanges ==
    /\ h.op = "on_window_destroy"
    /\ phase = "off"
    /\ session.kind = "json"
    /\ session.active_project_index = 0
    /\ SavedNames(session.projects[1].subtabs) = << "Tab 1", "Tab 2" >>
    /\ session.projects[1].active_subtab_index = 0
    /\ session.projects[1].last_used > StartTime

====
